---- MODULE Spec2Model ----
(***************************************************************************)
(* A model of the 8BitGE particle subsystem (src/8bitge/systems/           *)
(* particles.ts): the Particle life cycle, the ParticleEmitter's burst /   *)
(* continuous emission / pruning loop and the ParticleSystem's emitter,    *)
(* preset and image tables; and of the Animator's sprite animation         *)
(* playback and the Tweener's property tweens                              *)
(* (src/8bitge/utils/animation.ts).                                        *)
(*                                                                         *)
(* Times are integer milliseconds.  Opacities and progress values are      *)
(* exact rationals <<numerator, denominator>> in lowest terms, so that the *)
(* code's arithmetic (a + (b - a) * t, age / lifetime) is computed, not    *)
(* approximated.  The emission accumulator, whose rounding decides how     *)
(* many particles a tick emits, is an IEEE-754 double as in JavaScript.    *)
(* Position, velocity and acceleration play no part in the life cycle and  *)
(* are kept apart from the particle record, for the stand-alone particle   *)
(* only; size, rotation and colour are left out.                           *)
(***************************************************************************)
EXTENDS Integers, Sequences, FiniteSets, TLC

VARIABLES
    particle,      \* the stand-alone Particle object under test
    updateResult,  \* what the last Particle.update call returned
    onEndCalls,    \* how often options.onEnd ran since construction / reset
    pOp,           \* the last call made on the stand-alone particle
    pDt,           \* the deltaTime of the last Particle.update call
    body,          \* position, velocity and acceleration of that particle
    pStart,        \* the onStart calls of the last call, and what it acted on
    emitter,       \* the ParticleEmitter object (fields and live particles)
    eOp,           \* the last call made on the emitter
    eDt,           \* the deltaTime of the last ParticleEmitter.update call
    ticked,        \* sum of deltaTime over the updates that ran while active
    emitted,       \* particles created so far by continuous emission
    newborn,       \* the particles the last update created, as it left them
    refused,       \* whether the last call hit the maxParticles cap
    started,       \* whether start() has been called on the emitter
    bursted,       \* particles the last call created through burst()
    system,        \* the ParticleSystem object (its tables, loads in flight)
    sCall,         \* the last call made on the ParticleSystem and its result
    animator,      \* the Animator object
    aCall,         \* the last call made on the Animator and its result
    tweener,       \* the Tweener object
    target,        \* the object whose properties the tweens drive
    clock,         \* the wall clock read by Date.now(), in milliseconds
    tCall,         \* the last call made on the Tweener and what it did
    engine,        \* the GameEngine object: status, animationFrameId, canvas
    animationFrames, \* the browser's animation-frame handles and callbacks
    gCall,         \* the last step of the engine's world and what it ran
    eventEmitter,  \* the EventEmitter object, for one event name
    listenerCalls, \* how often each function was called, over all emits
    evCall,        \* the last call made on the EventEmitter and what it did
    easeCall,      \* an easing curve, a t and what applyEasing returned for them
    colorCall      \* two colors, an amount and what lerpColor returned for them

vars == <<particle, updateResult, onEndCalls, pOp, pDt, body, pStart,
          emitter, eOp, eDt, ticked, emitted, newborn, refused, started, bursted,
          system, sCall, animator, aCall, tweener, target, clock, tCall,
          engine, animationFrames, gCall,
          eventEmitter, listenerCalls, evCall, easeCall, colorCall>>

particleVars == <<particle, updateResult, onEndCalls, pOp, pDt, body, pStart>>
emitterVars == <<emitter, eOp, eDt, ticked, emitted, newborn, refused,
                 started, bursted>>
systemVars == <<system, sCall>>
animatorVars == <<animator, aCall>>
tweenerVars == <<tweener, target, clock, tCall>>
engineVars == <<engine, animationFrames, gCall>>
eventVars == <<eventEmitter, listenerCalls, evCall>>
functionVars == <<easeCall, colorCall>>

\* what a call on one object leaves alone: the other objects
notParticle ==
    <<emitterVars, systemVars, animatorVars, tweenerVars, engineVars,
      eventVars, functionVars>>
notEmitter ==
    <<particleVars, systemVars, animatorVars, tweenerVars, engineVars,
      eventVars, functionVars>>
notSystem ==
    <<particleVars, emitterVars, animatorVars, tweenerVars, engineVars,
      eventVars, functionVars>>
notAnimator ==
    <<particleVars, emitterVars, systemVars, tweenerVars, engineVars,
      eventVars, functionVars>>
notTweener ==
    <<particleVars, emitterVars, systemVars, animatorVars, engineVars,
      eventVars, functionVars>>
notEngine ==
    <<particleVars, emitterVars, systemVars, animatorVars, tweenerVars,
      eventVars, functionVars>>
notEvents ==
    <<particleVars, emitterVars, systemVars, animatorVars, tweenerVars,
      engineVars, functionVars>>
notFunctions ==
    <<particleVars, emitterVars, systemVars, animatorVars, tweenerVars,
      engineVars, eventVars>>

----------------------------------------------------------------------------
(* Bounds of the model *)

\* updates are explored until MaxTime * 50 ms of active emitter time
MaxTime == 5
\* an explosion is explored until MaxExplosionTime * 100 ms of active time
MaxExplosionTime == 9
\* the largest count passed to burst() by the host
MaxBurst == 2
\* without a cap, burst() and start() are explored while at most MaxLive
\* particles live afterwards
MaxLive == MaxBurst + 1
\* the random draws of one call repeat with this period
RandPeriod == 2

\* a ParticleSystem is explored until MaxObjects emitters and images were made
MaxObjects == 3
\* the largest options.scale a host passes to a preset
MaxScale == 2
\* an Animator is explored while frameTime is at most MaxFrameTime * 50 ms
MaxFrameTime == 4
\* a Tweener is explored until MaxTweens tweens were created
MaxTweens == 2
\* and until the wall clock has advanced MaxClock times
MaxClock == 6
\* a GameEngine is explored until MaxHandles animation frames were requested
MaxHandles == 8
\* applyEasing is applied to the multiples of 1 / 2^TBits in 0..1
TBits == 4
\* an EventEmitter is explored with up to MaxListeners functions registered
\* and until MaxEmits emits were made
MaxListeners == 3
MaxEmits == 3

\* the deltaTime values (ms) a host passes to Particle.update
DeltaTimes == {0, 50, 100}

\* the deltaTime values (ms) a host passes to ParticleEmitter.update
EmitterDeltaTimes == {50, 100}

\* the deltaTime values (ms) a host passes to an explosion's update
ExplosionDeltaTimes == {100, 200}

\* the values of Math.random(), in percent (Math.random() < 1)
RandomPercents == {0, 50}

----------------------------------------------------------------------------
(* Exact rational arithmetic for the code's floating-point expressions *)

Abs(n) == IF n < 0 THEN -n ELSE n

RECURSIVE GCD(_, _)
GCD(a, b) == IF b = 0 THEN a ELSE GCD(b, a % b)

Rat(n, d) ==
    LET g == GCD(Abs(n), Abs(d))
        s == IF d < 0 THEN -1 ELSE 1
    IN  <<(s * n) \div g, (s * d) \div g>>

Zero == Rat(0, 1)
One == Rat(1, 1)

RAdd(a, b) == Rat(a[1] * b[2] + b[1] * a[2], a[2] * b[2])
RSub(a, b) == Rat(a[1] * b[2] - b[1] * a[2], a[2] * b[2])
RMul(a, b) == Rat(a[1] * b[1], a[2] * b[2])
RDiv(a, b) == Rat(a[1] * b[2], a[2] * b[1])
RLt(a, b) == a[1] * b[2] < b[1] * a[2]
RLe(a, b) == a[1] * b[2] <= b[1] * a[2]
RMin(a, b) == IF RLt(b, a) THEN b ELSE a

\* lerp(a, b, t) = a + (b - a) * t
lerp(a, b, t) == RAdd(a, RMul(RSub(b, a), t))

\* random(min, max) = Math.random() * (max - min) + min, with Math.random()
\* given in percent
random(min, max, percent) == RAdd(RMul(Rat(percent, 100), RSub(max, min)), min)

----------------------------------------------------------------------------
(* IEEE-754 double arithmetic for the emission accumulator.                 *)
(* A natural number is a sequence of 15-bit limbs, least significant first, *)
(* without leading zero limbs.  A double is 0 or m * 2^e with a 53-bit m;   *)
(* every result is rounded to nearest, ties to even, as JavaScript does.    *)

LimbBase == 2^15

RECURSIVE Limbs(_)
Limbs(n) == IF n = 0 THEN <<>> ELSE <<n % LimbBase>> \o Limbs(n \div LimbBase)

RECURSIVE BigToInt(_)
BigToInt(a) == IF Len(a) = 0 THEN 0 ELSE a[1] + LimbBase * BigToInt(Tail(a))

RECURSIVE BigNorm(_)
BigNorm(a) ==
    IF Len(a) > 0 /\ a[Len(a)] = 0 THEN BigNorm(SubSeq(a, 1, Len(a) - 1)) ELSE a

Limb(a, i) == IF i <= Len(a) THEN a[i] ELSE 0

ZeroLimbs(n) == [i \in 1..n |-> 0]

RECURSIVE BigAddFrom(_, _, _, _)
BigAddFrom(a, b, i, carry) ==
    IF i > Len(a) /\ i > Len(b)
    THEN IF carry = 0 THEN <<>> ELSE <<carry>>
    ELSE LET sum == Limb(a, i) + Limb(b, i) + carry
         IN  <<sum % LimbBase>> \o BigAddFrom(a, b, i + 1, sum \div LimbBase)

BigAdd(a, b) == BigAddFrom(a, b, 1, 0)

\* a - b for a >= b
RECURSIVE BigSubFrom(_, _, _, _)
BigSubFrom(a, b, i, borrow) ==
    IF i > Len(a)
    THEN <<>>
    ELSE LET diff == Limb(a, i) - Limb(b, i) - borrow
         IN  <<diff % LimbBase>> \o BigSubFrom(a, b, i + 1, IF diff < 0 THEN 1 ELSE 0)

BigSub(a, b) == BigNorm(BigSubFrom(a, b, 1, 0))

\* a * k for 0 < k <= LimbBase
RECURSIVE BigMulFrom(_, _, _, _)
BigMulFrom(a, k, i, carry) ==
    IF i > Len(a)
    THEN IF carry = 0 THEN <<>> ELSE <<carry>>
    ELSE LET prod == a[i] * k + carry
         IN  <<prod % LimbBase>> \o BigMulFrom(a, k, i + 1, prod \div LimbBase)

\* a * 2^s
BigShl(a, s) ==
    IF Len(a) = 0 THEN <<>>
    ELSE ZeroLimbs(s \div 15) \o BigMulFrom(a, 2^(s % 15), 1, 0)

\* a divided by 0 < d <= LimbBase, from the top limb down: quotient and remainder
RECURSIVE BigDivFrom(_, _, _, _)
DivStep(cur, d, rest) == [q |-> rest.q \o <<cur \div d>>, r |-> rest.r]

BigDivFrom(a, d, i, rem) ==
    IF i = 0
    THEN [q |-> <<>>, r |-> rem]
    ELSE DivStep(rem * LimbBase + a[i], d,
                 BigDivFrom(a, d, i - 1, (rem * LimbBase + a[i]) % d))

NormQuotient(res) == [q |-> BigNorm(res.q), r |-> res.r]

BigDivSmall(a, d) == NormQuotient(BigDivFrom(a, d, Len(a), 0))

\* floor(a / 2^t)
BigShr(a, t) ==
    IF t \div 15 >= Len(a) THEN <<>>
    ELSE BigDivSmall(SubSeq(a, (t \div 15) + 1, Len(a)), 2^(t % 15)).q

\* whether a mod 2^t is not 0
BigLowNonzero(a, t) ==
    \/ \E i \in 1..Len(a) : i <= t \div 15 /\ a[i] # 0
    \/ Limb(a, (t \div 15) + 1) % 2^(t % 15) # 0

\* bit i of a (bit 0 is the least significant)
BigBit(a, i) == (Limb(a, (i \div 15) + 1) \div 2^(i % 15)) % 2

RECURSIVE IntBitLen(_)
IntBitLen(n) == IF n = 0 THEN 0 ELSE 1 + IntBitLen(n \div 2)

BigBitLen(a) == IF Len(a) = 0 THEN 0 ELSE 15 * (Len(a) - 1) + IntBitLen(a[Len(a)])

DoubleZero == [m |-> <<>>, e |-> 0]

\* whether dropping the low t bits of n rounds the quotient q up: the first
\* dropped bit is set and the rest is not 0 or q is odd (ties to even)
RoundsUp(n, sticky, q, t) ==
    BigBit(n, t - 1) = 1 /\ (sticky \/ BigLowNonzero(n, t - 1) \/ BigBit(q, 0) = 1)

\* the rounded mantissa q * 2^e, renormalised when rounding carried into bit 54
Renormalise(q, e) ==
    IF BigBitLen(q) > 53 THEN [m |-> BigShr(q, 1), e |-> e + 1] ELSE [m |-> q, e |-> e]

RoundShifted(n, sticky, e, q, t) ==
    Renormalise(IF RoundsUp(n, sticky, q, t) THEN BigAdd(q, <<1>>) ELSE q, e + t)

RoundLen(n, sticky, e, len) ==
    IF len = 0 THEN DoubleZero
    ELSE IF len <= 53
    THEN [m |-> BigShl(n, 53 - len), e |-> e - (53 - len)]
    ELSE RoundShifted(n, sticky, e, BigShr(n, len - 53), len - 53)

\* the double nearest to n * 2^e (plus a nonzero amount below the last bit
\* of n when sticky), ties to even
Round53(n, sticky, e) == RoundLen(n, sticky, e, BigBitLen(n))

\* x + y in double arithmetic
AddAligned(x, y, e0) ==
    Round53(BigAdd(BigShl(x.m, x.e - e0), BigShl(y.m, y.e - e0)), FALSE, e0)

DoubleAdd(x, y) ==
    IF Len(x.m) = 0 THEN y
    ELSE IF Len(y.m) = 0 THEN x
    ELSE AddAligned(x, y, IF x.e < y.e THEN x.e ELSE y.e)

\* n / d in double arithmetic, for integers n >= 0 and 0 < d <= LimbBase
RoundQuotient(res) == Round53(res.q, res.r # 0, -75)

DoubleDiv(n, d) ==
    IF n = 0 THEN DoubleZero
    ELSE RoundQuotient(BigDivSmall(ZeroLimbs(5) \o Limbs(n), d))

\* Math.floor(x) for 0 <= x < 2^31
DoubleFloor(x) ==
    IF Len(x.m) = 0 THEN 0
    ELSE IF x.e >= 0 THEN BigToInt(BigShl(x.m, x.e))
    ELSE BigToInt(BigShr(x.m, -x.e))

\* x - n in double arithmetic, for an integer 0 <= n <= x (the difference is
\* exact)
DoubleSubInt(x, n) ==
    IF n = 0 THEN x
    ELSE IF x.e >= 0 THEN Round53(BigSub(BigShl(x.m, x.e), Limbs(n)), FALSE, 0)
    ELSE Round53(BigSub(x.m, BigShl(Limbs(n), -x.e)), FALSE, x.e)

----------------------------------------------------------------------------
(* Signed double arithmetic for the easing curves.  A Number is a sign and   *)
(* the double that is its magnitude; zero has no sign.                       *)

\* whether a < b, for naturals without leading zero limbs
RECURSIVE BigLessFrom(_, _, _)
BigLessFrom(a, b, i) ==
    IF i = 0 THEN FALSE
    ELSE IF a[i] # b[i] THEN a[i] < b[i]
    ELSE BigLessFrom(a, b, i - 1)

BigLess(a, b) ==
    IF Len(a) # Len(b) THEN Len(a) < Len(b) ELSE BigLessFrom(a, b, Len(a))

\* a * b
RECURSIVE BigMulAll(_, _, _)
BigMulAll(a, b, i) ==
    IF i > Len(b) THEN <<>>
    ELSE BigAdd(IF b[i] = 0 THEN <<>>
                ELSE ZeroLimbs(i - 1) \o BigMulFrom(a, b[i], 1, 0),
                BigMulAll(a, b, i + 1))

BigMul(a, b) == BigNorm(BigMulAll(a, b, 1))

\* x * y in double arithmetic
DoubleMul(x, y) ==
    IF Len(x.m) = 0 \/ Len(y.m) = 0 THEN DoubleZero
    ELSE Round53(BigMul(x.m, y.m), FALSE, x.e + y.e)

\* x * x * x rounded once, the cube Math.pow(x, 3) returns
DoubleCube(x) ==
    IF Len(x.m) = 0 THEN DoubleZero
    ELSE Round53(BigMul(BigMul(x.m, x.m), x.m), FALSE, 3 * x.e)

\* whether x < y, for doubles with 53-bit mantissas
DoubleLess(x, y) ==
    IF Len(y.m) = 0 THEN FALSE
    ELSE IF Len(x.m) = 0 THEN TRUE
    ELSE IF x.e # y.e THEN x.e < y.e
    ELSE BigLess(x.m, y.m)

\* x - y in double arithmetic, for x >= y > 0
SubAligned(x, y, e0) ==
    Round53(BigSub(BigShl(x.m, x.e - e0), BigShl(y.m, y.e - e0)), FALSE, e0)

DoubleSub(x, y) ==
    IF Len(y.m) = 0 THEN x
    ELSE SubAligned(x, y, IF x.e < y.e THEN x.e ELSE y.e)

Number(neg, abs) == [neg |-> neg /\ Len(abs.m) # 0, abs |-> abs]

\* the double nearest to n / d, for integers n and 0 < d <= LimbBase: a
\* literal, or the quotient of two literals
Num(n, d) == Number(n < 0, DoubleDiv(Abs(n), d))

NumNeg(x) == Number(~x.neg, x.abs)

NumAdd(x, y) ==
    IF x.neg = y.neg THEN Number(x.neg, DoubleAdd(x.abs, y.abs))
    ELSE IF DoubleLess(x.abs, y.abs) THEN Number(y.neg, DoubleSub(y.abs, x.abs))
    ELSE Number(x.neg, DoubleSub(x.abs, y.abs))

NumSub(x, y) == NumAdd(x, NumNeg(y))

NumMul(x, y) == Number(x.neg # y.neg, DoubleMul(x.abs, y.abs))

\* Math.pow(x, 3)
NumCube(x) == Number(x.neg, DoubleCube(x.abs))

NumLess(x, y) ==
    IF x.neg # y.neg THEN x.neg
    ELSE IF x.neg THEN DoubleLess(y.abs, x.abs)
    ELSE DoubleLess(x.abs, y.abs)

----------------------------------------------------------------------------
(* Particle *)

\* const fadeStart = 0.75
fadeStart == Rat(3, 4)

\* ParticleOptions.opacity: absent, a number, or a [start, end] pair
OpacityOptions ==
    { [kind |-> "undefined", a |-> One, b |-> One],
      [kind |-> "number", a |-> One, b |-> One],
      [kind |-> "number", a |-> Rat(1, 2), b |-> Rat(1, 2)],
      [kind |-> "array", a |-> One, b |-> Zero],
      [kind |-> "array", a |-> Rat(1, 2), b |-> Rat(3, 10)],
      [kind |-> "array", a |-> Zero, b |-> One] }

\* ParticleOptions.lifetime: 0 stands for an absent (or zero) option
LifetimeOptions == {0, 100, 200, 250}

\* ParticleOptions.fadeOut
FadeOutOptions == {"undefined", "true", "false"}

\* a Vector2D of two rationals
Vector2D(x, y) == [x |-> Rat(x, 1), y |-> Rat(y, 1)]

\* ParticleOptions.velocity and .acceleration: absent, or a vector
NoVector == [given |-> FALSE, v |-> Vector2D(0, 0)]
VelocityOptions == {NoVector, [given |-> TRUE, v |-> Vector2D(100, -200)]}
AccelerationOptions == {NoVector, [given |-> TRUE, v |-> Vector2D(-200, 400)]}

\* ParticleOptions.position
PositionOptions == {Vector2D(0, 0), Vector2D(10, 20)}

\* the options of a particle at rest, and those of a moving particle with
\* or without an onStart callback
ParticleOptions ==
    [lifetime : LifetimeOptions, opacity : OpacityOptions, fadeOut : FadeOutOptions,
     position : {Vector2D(0, 0)}, velocity : {NoVector}, acceleration : {NoVector},
     onStart : {FALSE}]
    \cup
    [lifetime : {250}, opacity : {[kind |-> "array", a |-> One, b |-> Zero]},
     fadeOut : {"undefined"}, position : PositionOptions,
     velocity : VelocityOptions, acceleration : AccelerationOptions,
     onStart : BOOLEAN]

\* new Particle(options): position, velocity and acceleration
NewBody(options) ==
    [ position |-> options.position,
      velocity |-> IF options.velocity.given THEN options.velocity.v
                   ELSE Vector2D(0, 0),
      acceleration |-> IF options.acceleration.given THEN options.acceleration.v
                       ELSE Vector2D(0, 0) ]

\* new Particle(options): the fields of the life cycle
NewParticle(options) ==
    [ age |-> 0,
      lifetime |-> IF options.lifetime = 0 THEN 1000 ELSE options.lifetime,
      active |-> TRUE,
      startOpacity |-> IF options.opacity.kind = "undefined" THEN One ELSE options.opacity.a,
      endOpacity |-> IF options.opacity.kind = "array" THEN options.opacity.b
                     ELSE IF options.opacity.kind = "undefined" THEN One
                     ELSE options.opacity.a,
      opacity |-> IF options.opacity.kind = "undefined" THEN One ELSE options.opacity.a,
      fadeOut |-> options.fadeOut # "false" ]

\* a variant that interpolates start to end over the whole life, without the fade
OpacitySingleLerp(p, progress) == lerp(p.startOpacity, p.endOpacity, progress)

\* the opacity Particle.update assigns at the given lifetime progress
Opacity(p, progress) ==
    IF p.fadeOut
    THEN IF RLt(fadeStart, progress)
         THEN LET fadeProgress == RDiv(RSub(progress, fadeStart), RSub(One, fadeStart))
              IN  lerp(RAdd(p.startOpacity,
                            RMul(RSub(p.endOpacity, p.startOpacity),
                                 RMin(RDiv(progress, fadeStart), One))),
                       Zero, fadeProgress)
         ELSE lerp(p.startOpacity, p.endOpacity, RDiv(progress, fadeStart))
    ELSE lerp(p.startOpacity, p.endOpacity, progress)

\* a variant of reset() that leaves age and active alone
ParticleResetKeepAge(p, b, options) ==
    [ p |-> [NewParticle(options) EXCEPT !.age = p.age, !.active = p.active],
      body |-> NewBody(options),
      onStart |-> IF options.onStart THEN 1 ELSE 0 ]

\* Particle.reset(options) on a particle with fields p and b: the fields
\* afterwards and the number of onStart calls made
ParticleReset(p, b, options) ==
    [ p |-> [p EXCEPT
               !.age = 0,
               !.lifetime = IF options.lifetime = 0 THEN 1000 ELSE options.lifetime,
               !.active = TRUE,
               !.startOpacity = IF options.opacity.kind = "undefined" THEN One
                                ELSE options.opacity.a,
               !.endOpacity = IF options.opacity.kind = "array" THEN options.opacity.b
                              ELSE IF options.opacity.kind = "undefined" THEN One
                              ELSE options.opacity.a,
               !.opacity = IF options.opacity.kind = "undefined" THEN One
                           ELSE options.opacity.a,
               !.fadeOut = options.fadeOut # "false"],
      body |-> [b EXCEPT
                  !.position = options.position,
                  !.velocity = IF options.velocity.given THEN options.velocity.v
                               ELSE Vector2D(0, 0),
                  !.acceleration = IF options.acceleration.given
                                   THEN options.acceleration.v
                                   ELSE Vector2D(0, 0)],
      onStart |-> IF options.onStart THEN 1 ELSE 0 ]

\* a variant that moves the particle with the velocity it had before the call
ParticlePhysicsExplicit(b, deltaTime) ==
    [b EXCEPT
       !.velocity = [x |-> RAdd(b.velocity.x, RDiv(RMul(b.acceleration.x, Rat(deltaTime, 1)), Rat(1000, 1))),
                     y |-> RAdd(b.velocity.y, RDiv(RMul(b.acceleration.y, Rat(deltaTime, 1)), Rat(1000, 1)))],
       !.position = [x |-> RAdd(b.position.x, RDiv(RMul(b.velocity.x, Rat(deltaTime, 1)), Rat(1000, 1))),
                     y |-> RAdd(b.position.y, RDiv(RMul(b.velocity.y, Rat(deltaTime, 1)), Rat(1000, 1)))]]

\* the velocity after  velocity += acceleration * deltaTime / 1000
Accelerated(b, deltaTime) ==
    [x |-> RAdd(b.velocity.x, RDiv(RMul(b.acceleration.x, Rat(deltaTime, 1)), Rat(1000, 1))),
     y |-> RAdd(b.velocity.y, RDiv(RMul(b.acceleration.y, Rat(deltaTime, 1)), Rat(1000, 1)))]

\* "Update physics" of Particle.update: the velocity is assigned first and
\* the position then moves with the assigned velocity
ParticlePhysics(b, deltaTime) ==
    [b EXCEPT
       !.velocity = Accelerated(b, deltaTime),
       !.position = [x |-> RAdd(b.position.x, RDiv(RMul(Accelerated(b, deltaTime).x, Rat(deltaTime, 1)), Rat(1000, 1))),
                     y |-> RAdd(b.position.y, RDiv(RMul(Accelerated(b, deltaTime).y, Rat(deltaTime, 1)), Rat(1000, 1)))]]

\* a variant with a strict comparison
LifetimeOverStrict(age, lifetime) == age > lifetime

\* whether the aged particle's lifetime is over: this.age >= this.lifetime
LifetimeOver(age, lifetime) == age >= lifetime

\* a variant without the early return for an inactive particle
ParticleUpdateNoGuard(p, deltaTime) ==
    LET age == p.age + deltaTime
    IN  IF LifetimeOver(age, p.lifetime)
        THEN [p |-> [p EXCEPT !.age = age, !.active = FALSE],
              ret |-> FALSE, ended |-> TRUE]
        ELSE [p |-> [p EXCEPT !.age = age,
                              !.opacity = Opacity(p, Rat(age, p.lifetime))],
              ret |-> TRUE, ended |-> FALSE]

\* a variant that evaluates the opacity curve on the expiring update too
ParticleUpdateFadeAtEnd(p, deltaTime) ==
    IF ~p.active
    THEN [p |-> p, ret |-> FALSE, ended |-> FALSE]
    ELSE LET age == p.age + deltaTime
         IN  IF LifetimeOver(age, p.lifetime)
             THEN [p |-> [p EXCEPT !.age = age, !.active = FALSE,
                                   !.opacity = Opacity(p, One)],
                   ret |-> FALSE, ended |-> TRUE]
             ELSE [p |-> [p EXCEPT !.age = age,
                                   !.opacity = Opacity(p, Rat(age, p.lifetime))],
                   ret |-> TRUE, ended |-> FALSE]

\* a variant that leaves a particle of age 0 alone for one update
ParticleUpdateSkipFresh(p, deltaTime) ==
    IF ~p.active \/ p.age = 0
    THEN [p |-> p, ret |-> p.active, ended |-> FALSE]
    ELSE LET age == p.age + deltaTime
         IN  IF LifetimeOver(age, p.lifetime)
             THEN [p |-> [p EXCEPT !.age = age, !.active = FALSE],
                   ret |-> FALSE, ended |-> TRUE]
             ELSE [p |-> [p EXCEPT !.age = age,
                                   !.opacity = Opacity(p, Rat(age, p.lifetime))],
                   ret |-> TRUE, ended |-> FALSE]

\* Particle.update(deltaTime): the fields of the life cycle afterwards, the
\* value returned and whether onEnd was called; the physics, which runs on
\* the updates that return true, is ParticlePhysics
ParticleUpdate(p, deltaTime) ==
    IF ~p.active
    THEN [p |-> p, ret |-> FALSE, ended |-> FALSE]
    ELSE LET age == p.age + deltaTime
         IN  IF LifetimeOver(age, p.lifetime)
             THEN [p |-> [p EXCEPT !.age = age, !.active = FALSE],
                   ret |-> FALSE, ended |-> TRUE]
             ELSE [p |-> [p EXCEPT !.age = age,
                                   !.opacity = Opacity(p, Rat(age, p.lifetime))],
                   ret |-> TRUE, ended |-> FALSE]

----------------------------------------------------------------------------
(* ParticleEmitter *)

\* the particleOptions template of the modelled emitters: the opacity and
\* fade of the sparkles preset, with a 200 ms lifetime varied by +-50 %
TemplateOptions ==
    [lifetime |-> 200, opacity |-> [kind |-> "array", a |-> One, b |-> Zero],
     fadeOut |-> "true"]

Options(emissionRate, burstCount, maxParticles, duration, loop) ==
    [ emissionRate |-> emissionRate, burstCount |-> burstCount,
      maxParticles |-> maxParticles, duration |-> duration, loop |-> loop,
      particleOptions |-> TemplateOptions, lifetimeVariance |-> Rat(1, 2) ]

\* EmitterOptions: uncapped continuous emitters at a whole and at a
\* fractional number of particles per tick, a capped emitter whose burst and
\* rate both exceed the cap, and one-shot and looping emitters with a duration
EmitterOptions ==
    { Options(10, 0, 0, 0, FALSE),
      Options(12, 0, 0, 0, FALSE),
      Options(25, 3, 2, 0, FALSE),
      Options(10, 2, 0, 200, FALSE),
      Options(10, 2, 3, 200, TRUE) }

\* new ParticleEmitter(options)
NewEmitter(options) ==
    [ emissionRate |-> options.emissionRate,
      burstCount |-> options.burstCount,
      maxParticles |-> options.maxParticles,
      duration |-> options.duration,
      loop |-> options.loop,
      particleOptions |-> options.particleOptions,
      lifetimeVariance |-> options.lifetimeVariance,
      active |-> FALSE,
      age |-> 0,
      emissionAccumulator |-> DoubleZero,
      particles |-> <<>> ]

\* the random draws of a call that makes up to n of them: draw i is base[i],
\* repeated with period RandPeriod
RandomBases(n) == [1..(IF n < RandPeriod THEN n ELSE RandPeriod) -> RandomPercents]
Draw(base, i) == base[((i - 1) % Len(base)) + 1]

\* the whole milliseconds of a lifetime (the model's lifetimes are whole)
Millis(r) == r[1] \div r[2]

\* ParticleEmitter.emitParticle(): the particle pushed, its lifetime varied
\* by lifetime * random(1 - lifetimeVariance, 1 + lifetimeVariance)
emitParticle(e, percent) ==
    LET base == e.particleOptions
        lifetime ==
            IF RLt(Zero, e.lifetimeVariance)
            THEN Millis(RMul(Rat(base.lifetime, 1),
                             random(RSub(One, e.lifetimeVariance),
                                    RAdd(One, e.lifetimeVariance), percent)))
            ELSE base.lifetime
    IN  NewParticle([base EXCEPT !.lifetime = lifetime])

\* a variant of the cap test that is late by one particle
AtCapLate(e) == e.maxParticles > 0 /\ Len(e.particles) > e.maxParticles

\* the cap test made before each emission
AtCap(e) == e.maxParticles > 0 /\ Len(e.particles) >= e.maxParticles

\* the loops of burst() and of update()'s continuous emission:
\* for (i = 0; i < count; i++) { if (at the cap) return / break; emitParticle() }
\* `drawn` random draws were used before the loop
RECURSIVE EmitLoop(_, _, _, _, _)
EmitLoop(e, i, count, base, drawn) ==
    IF i >= count
    THEN [e |-> e, made |-> i, refused |-> FALSE]
    ELSE IF AtCap(e)
         THEN [e |-> e, made |-> i, refused |-> TRUE]
         ELSE EmitLoop([e EXCEPT !.particles =
                           Append(@, emitParticle(e, Draw(base, drawn + i + 1)))],
                       i + 1, count, base, drawn)

\* ParticleEmitter.burst(count)
EmitterBurst(e, count, base, drawn) == EmitLoop(e, 0, count, base, drawn)

\* a variant of start() that keeps the emitter's age
EmitterStartKeepAge(e, base) ==
    LET e1 == [e EXCEPT !.active = TRUE]
    IN  IF e1.burstCount > 0
        THEN EmitterBurst(e1, e1.burstCount, base, 0)
        ELSE [e |-> e1, made |-> 0, refused |-> FALSE]

\* ParticleEmitter.start()
EmitterStart(e, base) ==
    LET e1 == [e EXCEPT !.active = TRUE, !.age = 0]
    IN  IF e1.burstCount > 0
        THEN EmitterBurst(e1, e1.burstCount, base, 0)
        ELSE [e |-> e1, made |-> 0, refused |-> FALSE]

\* ParticleEmitter.stop()
EmitterStop(e) == [e EXCEPT !.active = FALSE]

\* ParticleEmitter.isActive()
isActive(e) == e.active \/ Len(e.particles) > 0

\* ParticleEmitter.getParticleCount()
getParticleCount(e) == Len(e.particles)

\* this.emissionAccumulator += (this.emissionRate * deltaTime) / 1000
Accumulate(accumulator, emissionRate, deltaTime) ==
    DoubleAdd(accumulator, DoubleDiv(emissionRate * deltaTime, 1000))

\* the particles of a list of update results
Kept(results) == [i \in 1..Len(results) |-> results[i].p]

\* update()'s particle loop: every particle of the list is updated with the
\* same deltaTime; `all` is the list with each particle as its update left
\* it, `alive` the particles kept (the others are spliced out)
SpliceDead(results) ==
    [all |-> Kept(results), alive |-> Kept(SelectSeq(results, LAMBDA r : r.ret))]

UpdateParticles(particles, deltaTime) ==
    SpliceDead([i \in 1..Len(particles) |-> ParticleUpdate(particles[i], deltaTime)])

\* the most particles one update(deltaTime) call can create: the burst of a
\* loop restart and the whole part of the accumulator
UpdateDraws(e, deltaTime) ==
    IF ~e.active
    THEN 0
    ELSE (IF e.duration > 0 /\ e.age + deltaTime >= e.duration /\ e.loop
          THEN e.burstCount ELSE 0)
         + DoubleFloor(Accumulate(e.emissionAccumulator, e.emissionRate, deltaTime))

\* update(), lines 493-504: the particle loop over the list that emission
\* left, and what the call reports
UpdateFinish(looped, emission, updated) ==
    [e |-> [emission.e EXCEPT !.particles = updated.alive],
     ran |-> TRUE,
     made |-> emission.made,
     burst |-> looped.made,
     refused |-> looped.refused \/ emission.refused,
     newborn |-> SubSeq(updated.all, Len(updated.all) - emission.made + 1,
                        Len(updated.all))]

\* a variant that keeps in the accumulator the emissions the cap refused
UpdateEmissionCarry(e, accumulator, base, drawn) ==
    [EmitLoop(e, 0, DoubleFloor(accumulator), base, drawn) EXCEPT
         !.e.emissionAccumulator =
             DoubleSubInt(accumulator,
                          EmitLoop(e, 0, DoubleFloor(accumulator), base, drawn).made)]

\* update(), lines 479-490: emit floor(accumulator) particles, keep the rest
UpdateEmission(e, accumulator, base, drawn) ==
    EmitLoop([e EXCEPT !.emissionAccumulator =
                 DoubleSubInt(accumulator, DoubleFloor(accumulator))],
             0, DoubleFloor(accumulator), base, drawn)

\* update(), lines 475-491: continuous emission after the duration check
UpdateEmit(looped, deltaTime, base) ==
    IF looped.e.emissionRate > 0
    THEN UpdateEmission(looped.e,
                        Accumulate(looped.e.emissionAccumulator,
                                   looped.e.emissionRate, deltaTime),
                        base, looped.made)
    ELSE [e |-> looped.e, made |-> 0, refused |-> FALSE]

UpdateAfterDuration(looped, emission, deltaTime) ==
    UpdateFinish(looped, emission, UpdateParticles(emission.e.particles, deltaTime))

UpdateFrom(looped, deltaTime, base) ==
    UpdateAfterDuration(looped, UpdateEmit(looped, deltaTime, base), deltaTime)

\* a variant of the loop restart that does not burst
UpdateLoopNoBurst(e, base) ==
    [e |-> [e EXCEPT !.age = 0], made |-> 0, refused |-> FALSE]

\* update(), lines 463-468: a loop restart resets age and bursts again
UpdateLoop(e, base) ==
    IF e.burstCount > 0
    THEN EmitterBurst([e EXCEPT !.age = 0], e.burstCount, base, 0)
    ELSE [e |-> [e EXCEPT !.age = 0], made |-> 0, refused |-> FALSE]

\* ParticleEmitter.update(deltaTime): the emitter afterwards, whether it ran
\* (was active), how many particles continuous emission made, whether an
\* how many a loop restart's burst made, whether an emission was refused at
\* the cap, and the particles made by continuous emission as the call left
\* them
EmitterUpdate(e, deltaTime, base) ==
    IF ~e.active
    THEN [e |-> e, ran |-> FALSE, made |-> 0, burst |-> 0, refused |-> FALSE,
          newborn |-> <<>>]
    ELSE IF e.duration > 0 /\ e.age + deltaTime >= e.duration
    THEN IF e.loop
         THEN UpdateFrom(UpdateLoop(e, base), deltaTime, base)
         ELSE [e |-> [e EXCEPT !.age = e.age + deltaTime, !.active = FALSE],
               ran |-> TRUE, made |-> 0, burst |-> 0, refused |-> FALSE,
               newborn |-> <<>>]
    ELSE UpdateFrom([e |-> [e EXCEPT !.age = e.age + deltaTime],
                     made |-> 0, refused |-> FALSE], deltaTime, base)

----------------------------------------------------------------------------
(* ParticleSystem presets *)

\* options.scale || 1 (0 stands for an absent scale)
ScaleOr1(optionsScale) == IF optionsScale = 0 THEN 1 ELSE optionsScale

\* the EmitterOptions a preset function returns, for the fields and in the
\* order the built-ins write them; vectors are <<x, y>>, a size is <<n>> or
\* <<start, end>>, an absent burstCount is 0 and an absent loop is FALSE
PresetResult(emissionRate, burstCount, maxParticles, duration, loop, velocity, acceleration, size, opacity, lifetime, blendMode, fadeOut, velocityVariance, positionVariance, lifetimeVariance, sizeVariance) ==
    [ emissionRate |-> emissionRate,
      burstCount |-> burstCount,
      maxParticles |-> maxParticles,
      duration |-> duration,
      loop |-> loop,
      particleOptions |-> [velocity |-> velocity,
                           acceleration |-> acceleration,
                           size |-> size,
                           opacity |-> opacity,
                           lifetime |-> lifetime,
                           blendMode |-> blendMode,
                           fadeOut |-> fadeOut],
      velocityVariance |-> velocityVariance,
      positionVariance |-> positionVariance,
      lifetimeVariance |-> lifetimeVariance,
      sizeVariance |-> sizeVariance ]

\* opacity: [from, to] and opacity: n
OpacityRange(a, b) == [kind |-> "array", a |-> a, b |-> b]
OpacityNumber(a) == [kind |-> "number", a |-> a, b |-> a]

\* a variant of the explosion preset whose cap is not scaled
ExplosionPresetFixedCap(optionsScale) ==
    PresetResult(0, 30 * ScaleOr1(optionsScale), 30, 0, FALSE,
                 <<0, 0>>, <<0, 0>>,
                 <<10 * ScaleOr1(optionsScale), 5 * ScaleOr1(optionsScale)>>,
                 OpacityRange(One, Zero), 800, "lighter", "true",
                 <<400 * ScaleOr1(optionsScale), 400 * ScaleOr1(optionsScale)>>,
                 <<5 * ScaleOr1(optionsScale), 5 * ScaleOr1(optionsScale)>>,
                 Rat(1, 5), Rat(1, 2))

\* the 'explosion' preset of registerDefaultPresets
ExplosionPreset(optionsScale) ==
    PresetResult(0, 30 * ScaleOr1(optionsScale), 30 * ScaleOr1(optionsScale), 0, FALSE,
                 <<0, 0>>, <<0, 0>>,
                 <<10 * ScaleOr1(optionsScale), 5 * ScaleOr1(optionsScale)>>,
                 OpacityRange(One, Zero), 800, "lighter", "true",
                 <<400 * ScaleOr1(optionsScale), 400 * ScaleOr1(optionsScale)>>,
                 <<5 * ScaleOr1(optionsScale), 5 * ScaleOr1(optionsScale)>>,
                 Rat(1, 5), Rat(1, 2))

\* the 'confetti' preset
ConfettiPreset(optionsScale) ==
    PresetResult(20 * ScaleOr1(optionsScale), 0, 100 * ScaleOr1(optionsScale), 3000, FALSE,
                 <<0, -100 * ScaleOr1(optionsScale)>>, <<0, 98 * ScaleOr1(optionsScale)>>,
                 <<8 * ScaleOr1(optionsScale)>>,
                 OpacityNumber(One), 3000, "undefined", "false",
                 <<100 * ScaleOr1(optionsScale), 50 * ScaleOr1(optionsScale)>>,
                 <<50 * ScaleOr1(optionsScale), 0>>,
                 Rat(1, 5), Rat(3, 10))

\* the 'sparkles' preset
SparklesPreset(optionsScale) ==
    PresetResult(10 * ScaleOr1(optionsScale), 0, 30 * ScaleOr1(optionsScale), 0, TRUE,
                 <<0, -20 * ScaleOr1(optionsScale)>>, <<0, 0>>,
                 <<3 * ScaleOr1(optionsScale), 1 * ScaleOr1(optionsScale)>>,
                 OpacityRange(One, Zero), 1000, "lighter", "true",
                 <<20 * ScaleOr1(optionsScale), 10 * ScaleOr1(optionsScale)>>,
                 <<20 * ScaleOr1(optionsScale), 20 * ScaleOr1(optionsScale)>>,
                 Rat(1, 2), Rat(1, 2))

\* the 'fire' preset
FirePreset(optionsScale) ==
    PresetResult(25 * ScaleOr1(optionsScale), 0, 50 * ScaleOr1(optionsScale), 0, TRUE,
                 <<0, -60 * ScaleOr1(optionsScale)>>, <<0, -20 * ScaleOr1(optionsScale)>>,
                 <<15 * ScaleOr1(optionsScale), 5 * ScaleOr1(optionsScale)>>,
                 OpacityRange(Rat(4, 5), Zero), 1200, "lighter", "true",
                 <<10 * ScaleOr1(optionsScale), 20 * ScaleOr1(optionsScale)>>,
                 <<10 * ScaleOr1(optionsScale), 0>>,
                 Rat(1, 5), Rat(1, 4))

\* the 'smoke' preset
SmokePreset(optionsScale) ==
    PresetResult(5 * ScaleOr1(optionsScale), 0, 20 * ScaleOr1(optionsScale), 0, TRUE,
                 <<0, -15 * ScaleOr1(optionsScale)>>, <<0, -5 * ScaleOr1(optionsScale)>>,
                 <<20 * ScaleOr1(optionsScale), 40 * ScaleOr1(optionsScale)>>,
                 OpacityRange(Rat(3, 10), Zero), 3000, "source-over", "true",
                 <<8 * ScaleOr1(optionsScale), 3 * ScaleOr1(optionsScale)>>,
                 <<5 * ScaleOr1(optionsScale), 5 * ScaleOr1(optionsScale)>>,
                 Rat(1, 5), Rat(1, 5))

\* the 'rain' preset
RainPreset(optionsScale) ==
    PresetResult(50 * ScaleOr1(optionsScale), 0, 200 * ScaleOr1(optionsScale), 0, TRUE,
                 <<-20 * ScaleOr1(optionsScale), 300 * ScaleOr1(optionsScale)>>,
                 <<0, 50 * ScaleOr1(optionsScale)>>,
                 <<2 * ScaleOr1(optionsScale), 2 * ScaleOr1(optionsScale)>>,
                 OpacityRange(Rat(1, 2), Rat(3, 10)), 1200, "source-over", "false",
                 <<10 * ScaleOr1(optionsScale), 30 * ScaleOr1(optionsScale)>>,
                 <<150 * ScaleOr1(optionsScale), 0>>,
                 Rat(3, 10), Rat(1, 2))

----------------------------------------------------------------------------
(* ParticleSystem: the emitter, preset and image tables *)

\* the names registerDefaultPresets registers
BuiltInPresets == {"explosion", "confetti", "sparkles", "fire", "smoke", "rain"}

\* a preset function a host registers itself
CustomPreset(optionsScale) == SmokePreset(2 * ScaleOr1(optionsScale))

\* presetFn(options), for the preset function `fn`
ApplyPreset(fn, optionsScale) ==
    CASE fn = "explosion" -> ExplosionPreset(optionsScale)
      [] fn = "confetti" -> ConfettiPreset(optionsScale)
      [] fn = "sparkles" -> SparklesPreset(optionsScale)
      [] fn = "fire" -> FirePreset(optionsScale)
      [] fn = "smoke" -> SmokePreset(optionsScale)
      [] fn = "rain" -> RainPreset(optionsScale)
      [] OTHER -> CustomPreset(optionsScale)

\* a map with key k set to v (Map.set) and with key k deleted (Map.delete)
MapSet(m, k, v) == [x \in DOMAIN m \cup {k} |-> IF x = k THEN v ELSE m[x]]
MapDelete(m, k) == [x \in DOMAIN m \ {k} |-> m[x]]
EmptyMap == [x \in {} |-> 0]

\* new ParticleSystem(): empty emitter and image tables, the built-in presets;
\* `loading` holds the images whose onload / onerror has not run yet and
\* `objects` counts the emitter and image objects made so far
NewSystem ==
    [ emitters |-> EmptyMap,
      presets |-> [name \in BuiltInPresets |-> name],
      images |-> EmptyMap,
      loading |-> {},
      objects |-> 0 ]

\* the record of a call on the system: ret is the object returned (0 for
\* null, undefined or no result), options the EmitterOptions the emitter
\* was constructed from (0 when none was made)
Call(op, id, name, scale, ret, options) ==
    [op |-> op, id |-> id, name |-> name, scale |-> scale, ret |-> ret,
     options |-> options]

\* ParticleSystem.getEmitter(id) and getImage(id): the object, 0 for undefined
getEmitter(sys, id) ==
    IF id \in DOMAIN sys.emitters THEN sys.emitters[id] ELSE 0
getImage(sys, id) ==
    IF id \in DOMAIN sys.images THEN sys.images[id] ELSE 0

\* a variant of createEmitter that keeps an emitter already registered
createEmitterKeepOld(sys, id, options) ==
    [sys EXCEPT !.objects = @ + 1,
                !.emitters = IF id \in DOMAIN @ THEN @
                             ELSE MapSet(@, id, sys.objects + 1)]

\* ParticleSystem.createEmitter(id, options): the system afterwards.  The
\* tables hold references: the new ParticleEmitter(options) is object number
\* sys.objects + 1, which is also the value returned
createEmitter(sys, id, options) ==
    [sys EXCEPT !.objects = @ + 1,
                !.emitters = MapSet(@, id, sys.objects + 1)]

\* a variant of createEmitterFromPreset that makes a default emitter for an
\* unknown preset name
createEmitterFromPresetOrDefault(sys, id, presetName, optionsScale) ==
    IF presetName \notin DOMAIN sys.presets
    THEN [sys |-> createEmitter(sys, id, ApplyPreset("explosion", optionsScale)),
          ret |-> sys.objects + 1,
          emitter |-> ApplyPreset("explosion", optionsScale)]
    ELSE [sys |-> createEmitter(sys, id,
                                ApplyPreset(sys.presets[presetName], optionsScale)),
          ret |-> sys.objects + 1,
          emitter |-> ApplyPreset(sys.presets[presetName], optionsScale)]

\* ParticleSystem.createEmitterFromPreset(id, presetName, options): the
\* system afterwards, the object returned (0 for null) and the emitter made
createEmitterFromPreset(sys, id, presetName, optionsScale) ==
    IF presetName \notin DOMAIN sys.presets
    THEN [sys |-> sys, ret |-> 0, emitter |-> 0]
    ELSE [sys |-> createEmitter(sys, id,
                                ApplyPreset(sys.presets[presetName], optionsScale)),
          ret |-> sys.objects + 1,
          emitter |-> ApplyPreset(sys.presets[presetName], optionsScale)]

\* ParticleSystem.removeEmitter(id)
removeEmitter(sys, id) == [sys EXCEPT !.emitters = MapDelete(@, id)]

\* ParticleSystem.registerPreset(name, presetFn)
registerPreset(sys, name, presetFn) ==
    [sys EXCEPT !.presets = MapSet(@, name, presetFn)]

\* ParticleSystem.loadImage(id, src): a new Image whose load is in flight
loadImage(sys, id) ==
    [sys EXCEPT !.objects = @ + 1,
                !.loading = @ \cup {[id |-> id, object |-> sys.objects + 1]}]

\* img.onload of a load in flight: this.images.set(id, img)
onload(sys, load) ==
    [sys EXCEPT !.loading = @ \ {load},
                !.images = MapSet(@, load.id, load.object)]

\* img.onerror of a load in flight: the promise is rejected
onerror(sys, load) == [sys EXCEPT !.loading = @ \ {load}]

\* a variant of destroy() that forgets to clear the image table
destroyKeepImages(sys) == [sys EXCEPT !.emitters = EmptyMap]

\* ParticleSystem.destroy(): this.emitters.clear(); this.images.clear()
destroy(sys) == [sys EXCEPT !.emitters = EmptyMap, !.images = EmptyMap]

----------------------------------------------------------------------------
(* Animator (src/8bitge/utils/animation.ts): sprite animation playback.
   The image cache and draw() play no part in playback and are left out. *)

\* one frame-indexed event of an animation
Event(frame, name) == [frame |-> frame, name |-> name]

\* an Animation object: frames are given by their durations in ms; a
\* duration or speed of 0 stands for an absent one
Animation(id, frames, loop, pingPong, speed, events) ==
    [id |-> id, frames |-> frames, loop |-> loop, pingPong |-> pingPong,
     speed |-> speed, events |-> events]

\* the Animation objects a host registers; an animation's place in this list
\* is its identity (two of them share the id "walk")
Animations ==
    << Animation("walk", <<100, 100, 100>>, TRUE, FALSE, 0, <<Event(2, "step")>>),
       Animation("bounce", <<100, 0, 100>>, FALSE, TRUE, 0, <<>>),
       Animation("once", <<100, 200, 0>>, FALSE, FALSE, 2,
                 <<Event(2, "done"), Event(2, "last")>>),
       Animation("walk", <<100, 100, 100>>, TRUE, TRUE, 1, <<Event(0, "first")>>),
       Animation("blink", <<100>>, FALSE, TRUE, 0, <<>>) >>

\* new Animator(): currentAnimation 0 stands for null
NewAnimator ==
    [ currentAnimation |-> 0,
      currentFrameIndex |-> 0,
      frameTime |-> 0,
      direction |-> 1,
      playing |-> FALSE,
      animations |-> EmptyMap,
      eventHandler |-> FALSE ]

\* Animator.registerAnimation(animation), for the animation object `object`
registerAnimation(a, object) ==
    [a EXCEPT !.animations = MapSet(@, Animations[object].id, object)]

\* Animator.setEventHandler(handler)
setEventHandler(a) == [a EXCEPT !.eventHandler = TRUE]

\* a variant of play() that resets the animation that is already current
AnimatorPlayAlwaysReset(a, animationId, resetIfSame) ==
    IF animationId \notin DOMAIN a.animations
    THEN [a |-> a, ret |-> FALSE]
    ELSE [a |-> [a EXCEPT !.currentAnimation = a.animations[animationId],
                          !.currentFrameIndex = 0,
                          !.frameTime = 0,
                          !.direction = 1,
                          !.playing = TRUE],
          ret |-> TRUE]

\* Animator.play(animationId, resetIfSame): the animator afterwards and the
\* value returned
AnimatorPlay(a, animationId, resetIfSame) ==
    IF animationId \notin DOMAIN a.animations
    THEN [a |-> a, ret |-> FALSE]
    ELSE IF a.currentAnimation = a.animations[animationId] /\ ~resetIfSame
    THEN [a |-> [a EXCEPT !.playing = TRUE], ret |-> TRUE]
    ELSE [a |-> [a EXCEPT !.currentAnimation = a.animations[animationId],
                          !.currentFrameIndex = 0,
                          !.frameTime = 0,
                          !.direction = 1,
                          !.playing = TRUE],
          ret |-> TRUE]

\* a variant of pause() that also rewinds
AnimatorPauseRewind(a) ==
    [a EXCEPT !.playing = FALSE, !.currentFrameIndex = 0, !.frameTime = 0]

\* Animator.pause()
AnimatorPause(a) == [a EXCEPT !.playing = FALSE]

\* Animator.resume()
AnimatorResume(a) ==
    IF a.currentAnimation # 0 THEN [a EXCEPT !.playing = TRUE] ELSE a

\* Animator.stop()
AnimatorStop(a) ==
    [a EXCEPT !.playing = FALSE,
              !.currentAnimation = 0,
              !.currentFrameIndex = 0,
              !.frameTime = 0]

\* a variant of processFrameEvents() that does not look at the frame index
processFrameEventsOfAnyFrame(a) ==
    IF ~a.eventHandler \/ a.currentAnimation = 0
    THEN <<>>
    ELSE [i \in 1..Len(Animations[a.currentAnimation].events) |->
             Animations[a.currentAnimation].events[i].name]

\* processFrameEvents(): the names handed to the event handler, in order
processFrameEvents(a) ==
    IF ~a.eventHandler \/ a.currentAnimation = 0
    THEN <<>>
    ELSE LET events == Animations[a.currentAnimation].events
             hits == SelectSeq(events, LAMBDA e : e.frame = a.currentFrameIndex)
         IN  [i \in 1..Len(hits) |-> hits[i].name]

\* a variant of the boundary handling in which a loop is tested before pingPong
AtBoundaryLoopFirst(a, animation) ==
    IF animation.loop
    THEN [a EXCEPT !.currentFrameIndex =
                       IF a.direction > 0 THEN 0 ELSE Len(animation.frames) - 1]
    ELSE IF animation.pingPong
    THEN [a EXCEPT !.direction = -a.direction,
                   !.currentFrameIndex = a.currentFrameIndex - a.direction]
    ELSE [a EXCEPT !.playing = FALSE]

\* a variant of the boundary handling that rewinds when the animation ends
AtBoundaryRewind(a, animation) ==
    IF animation.pingPong
    THEN [a EXCEPT !.direction = -a.direction,
                   !.currentFrameIndex = a.currentFrameIndex - a.direction]
    ELSE IF animation.loop
    THEN [a EXCEPT !.currentFrameIndex =
                       IF a.direction > 0 THEN 0 ELSE Len(animation.frames) - 1]
    ELSE [a EXCEPT !.playing = FALSE, !.currentFrameIndex = 0]

\* update(), lines 255-264: the next frame index is outside the animation
AtBoundary(a, animation) ==
    IF animation.pingPong
    THEN [a EXCEPT !.direction = -a.direction,
                   !.currentFrameIndex = a.currentFrameIndex - a.direction]
    ELSE IF animation.loop
    THEN [a EXCEPT !.currentFrameIndex =
                       IF a.direction > 0 THEN 0 ELSE Len(animation.frames) - 1]
    ELSE [a EXCEPT !.playing = FALSE]

\* a variant that skips a frame when the time left over covers the next one
ChangeFrameCatchUp(a, animation) ==
    IF a.currentFrameIndex + a.direction >= Len(animation.frames)
       \/ a.currentFrameIndex + a.direction < 0
    THEN AtBoundary(a, animation)
    ELSE IF a.currentFrameIndex + 2 * a.direction \in 0..(Len(animation.frames) - 1)
            /\ a.frameTime >= 100
    THEN [a EXCEPT !.currentFrameIndex = a.currentFrameIndex + 2 * a.direction]
    ELSE [a EXCEPT !.currentFrameIndex = a.currentFrameIndex + a.direction]

\* update(), lines 244-267: the frame's duration has elapsed; a is the
\* animator after this.frameTime -= frameDuration
ChangeFrame(a, animation) ==
    IF a.currentFrameIndex + a.direction >= Len(animation.frames)
       \/ a.currentFrameIndex + a.direction < 0
    THEN AtBoundary(a, animation)
    ELSE [a EXCEPT !.currentFrameIndex = a.currentFrameIndex + a.direction]

\* frames[i].duration !== undefined ? frames[i].duration : 100, for the
\* 0-based index i
FrameDuration(animation, i) ==
    IF animation.frames[i + 1] = 0 THEN 100 ELSE animation.frames[i + 1]

\* deltaTime * speed
AdjustedDelta(animation, deltaTime) ==
    deltaTime * (IF animation.speed = 0 THEN 1 ELSE animation.speed)

\* update(), lines 231-267, for a playing animator whose current animation has
\* frames; a is the animator after this.frameTime += adjustedDelta.  Reading
\* .duration of a frame outside the list throws a TypeError.
UpdateFrame(a, animation) ==
    IF a.currentFrameIndex < 0 \/ a.currentFrameIndex >= Len(animation.frames)
    THEN [a |-> a, events |-> <<>>, threw |-> TRUE]
    ELSE IF a.frameTime >= FrameDuration(animation, a.currentFrameIndex)
    THEN [a |-> ChangeFrame([a EXCEPT !.frameTime =
                                @ - FrameDuration(animation, a.currentFrameIndex)],
                            animation),
          events |-> processFrameEvents(a),
          threw |-> FALSE]
    ELSE [a |-> a, events |-> <<>>, threw |-> FALSE]

\* Animator.update(deltaTime): the animator afterwards, the events delivered
\* and whether the call threw
AnimatorUpdate(a, deltaTime) ==
    IF ~a.playing \/ a.currentAnimation = 0
    THEN [a |-> a, events |-> <<>>, threw |-> FALSE]
    ELSE IF Len(Animations[a.currentAnimation].frames) = 0
    THEN [a |-> a, events |-> <<>>, threw |-> FALSE]
    ELSE UpdateFrame([a EXCEPT !.frameTime =
                         @ + AdjustedDelta(Animations[a.currentAnimation], deltaTime)],
                     Animations[a.currentAnimation])

----------------------------------------------------------------------------
(* Tweener (src/8bitge/utils/animation.ts): property tweens driven by the
   wall clock.  A tween is a record of the fields of an activeTweens entry;
   all tweens drive properties of one target object.  Tween ids are the
   numbers n of the strings `tween_n`.  The elapsed field, which update only
   ever adds deltaTime to and nothing reads, is left out, and the easing is
   LINEAR.  The callbacks are host code: every tween has an onUpdate and an
   onComplete, whose calls are recorded; the onUpdate of a tween whose
   stops field is set calls stopTween on its own tween when it is handed the
   tween's `to` value.  The fields repeat0, created and cycles record the
   repeat option, the creation time and the number of ends reached. *)

\* target[property] for the properties the hosts tween
Properties == {"x", "y"}

\* activeTweens.splice(i, 1), with i counted from 1
Splice(tweens, i) ==
    IF i \in 1..Len(tweens)
    THEN SubSeq(tweens, 1, i - 1) \o SubSeq(tweens, i + 1, Len(tweens))
    ELSE tweens

\* new Tweener()
NewTweener == [activeTweens |-> <<>>, tweens |-> {}, nextTweenId |-> 0]

\* Tweener.tween(target, tween) at wall-clock time now
TweenerTween(t, options, now) ==
    [ activeTweens |->
          Append(t.activeTweens,
                 [ tweenId |-> t.nextTweenId + 1,
                   property |-> options.property,
                   from |-> options.from,
                   to |-> options.to,
                   start |-> now + options.delay,
                   end |-> now + options.delay + options.duration,
                   yoyo |-> options.yoyo,
                   repeat |-> options.repeat,
                   duration |-> options.duration,
                   delay |-> options.delay,
                   delayElapsed |-> options.delay = 0,
                   completed |-> FALSE,
                   stops |-> options.stops,
                   repeat0 |-> options.repeat,
                   created |-> now,
                   cycles |-> 0 ]),
      tweens |-> t.tweens \cup {t.nextTweenId + 1},
      nextTweenId |-> t.nextTweenId + 1 ]

\* activeTweens.findIndex(t => t.tweenId === tweenId), counted from 1; 0
\* when there is none
FindIndex(tweens, tweenId) ==
    IF \E i \in 1..Len(tweens) : tweens[i].tweenId = tweenId
    THEN CHOOSE i \in 1..Len(tweens) :
             /\ tweens[i].tweenId = tweenId
             /\ \A j \in 1..(i - 1) : tweens[j].tweenId # tweenId
    ELSE 0

\* Tweener.stopTween(tweenId)
stopTween(t, tweenId) ==
    IF FindIndex(t.activeTweens, tweenId) > 0
    THEN [t EXCEPT !.activeTweens = Splice(@, FindIndex(@, tweenId)),
                   !.tweens = @ \ {tweenId}]
    ELSE t

\* Tweener.stopAll()
stopAll(t) == [t EXCEPT !.activeTweens = <<>>, !.tweens = {}]

\* a variant that skips no tween
DelayedNever(tw, now) == FALSE

\* "Handle delay": the tween is skipped by an update made at time now
Delayed(tw, now) == ~tw.delayElapsed /\ now < tw.start

\* "Handle delay": the tween whose delay is found over at time now
DelayElapsed(tw, now) ==
    IF tw.delayElapsed
    THEN tw
    ELSE [tw EXCEPT !.delayElapsed = TRUE, !.start = now,
                    !.end = now + tw.duration]

\* enum EasingFunction
EasingFunctions ==
    {"linear", "easeIn", "easeOut", "easeInOut", "cubicIn", "cubicOut",
     "cubicInOut", "elasticIn", "elasticOut", "bounceIn", "bounceOut"}

\* easeInOut(t) = t < 0.5 ? 2 * t * t : -1 + (4 - 2 * t) * t
easeInOut(t) ==
    IF NumLess(t, Num(1, 2))
    THEN NumMul(NumMul(Num(2, 1), t), t)
    ELSE NumAdd(Num(-1, 1), NumMul(NumSub(Num(4, 1), NumMul(Num(2, 1), t)), t))

\* easeIn(t) = t * t
easeIn(t) == NumMul(t, t)

\* easeOut(t) = t * (2 - t)
easeOut(t) == NumMul(t, NumSub(Num(2, 1), t))

\* the value of a curve the model does not compute: Math.pow(2, x) times
\* Math.sin(y) of the elastic curves away from t = 0 and t = 1
NotComputed == [neg |-> FALSE, abs |-> DoubleZero, computed |-> FALSE]

\* `n1 * (t -= shift) * t + rise`, one segment of bounceOut
BounceSegment(n1, t, rise) == NumAdd(NumMul(NumMul(n1, t), t), rise)

\* a variant of bounceOut whose second segment begins at 0.7
bounceOutLow(t) ==
    IF NumLess(t, Num(4, 11))
    THEN NumMul(NumMul(Num(121, 16), t), t)
    ELSE IF NumLess(t, Num(8, 11))
    THEN BounceSegment(Num(121, 16), NumSub(t, Num(6, 11)), Num(7, 10))
    ELSE IF NumLess(t, Num(10, 11))
    THEN BounceSegment(Num(121, 16), NumSub(t, Num(9, 11)), Num(15, 16))
    ELSE BounceSegment(Num(121, 16), NumSub(t, Num(21, 22)), Num(63, 64))

\* case EasingFunction.BOUNCE_OUT, with n1 = 7.5625 = 121/16 and d1 = 2.75:
\* 1 / d1, 2 / d1, 2.5 / d1, 1.5 / d1, 2.25 / d1 and 2.625 / d1 are the
\* doubles nearest to 4/11, 8/11, 10/11, 6/11, 9/11 and 21/22
bounceOut(t) ==
    IF NumLess(t, Num(4, 11))
    THEN NumMul(NumMul(Num(121, 16), t), t)
    ELSE IF NumLess(t, Num(8, 11))
    THEN BounceSegment(Num(121, 16), NumSub(t, Num(6, 11)), Num(3, 4))
    ELSE IF NumLess(t, Num(10, 11))
    THEN BounceSegment(Num(121, 16), NumSub(t, Num(9, 11)), Num(15, 16))
    ELSE BounceSegment(Num(121, 16), NumSub(t, Num(21, 22)), Num(63, 64))

\* the branches `t === 0 ? 0 : t === 1 ? 1 : ...` of the elastic curves
Elastic(t) ==
    IF t = Num(0, 1) THEN Num(0, 1)
    ELSE IF t = Num(1, 1) THEN Num(1, 1)
    ELSE NotComputed

\* applyEasing(t, easing)
applyEasing(t, easing) ==
    CASE easing = "linear" -> t
      [] easing = "easeIn" -> easeIn(t)
      [] easing = "easeOut" -> easeOut(t)
      [] easing = "easeInOut" -> easeInOut(t)
      [] easing = "cubicIn" -> NumMul(NumMul(t, t), t)
      [] easing = "cubicOut" -> NumSub(Num(1, 1), NumCube(NumSub(Num(1, 1), t)))
      [] easing = "cubicInOut" ->
            IF NumLess(t, Num(1, 2))
            THEN NumMul(NumMul(NumMul(Num(4, 1), t), t), t)
            ELSE NumSub(Num(1, 1),
                        NumMul(NumCube(NumAdd(NumMul(Num(-2, 1), t), Num(2, 1))),
                               Num(1, 2)))
      [] easing = "elasticIn" -> Elastic(t)
      [] easing = "elasticOut" -> Elastic(t)
      [] easing = "bounceIn" -> NumSub(Num(1, 1), bounceOut(NumSub(Num(1, 1), t)))
      [] easing = "bounceOut" -> bounceOut(t)
      [] OTHER -> t


\* "Calculate progress": Math.min(1, Math.max(0, (now - start) / duration))
\* with the easing applied
Progress(tw, now) ==
    applyEasing(RMin(One, IF now < tw.start THEN Zero
                          ELSE Rat(now - tw.start, tw.duration)),
                "linear")

\* "Number interpolation": lerp(from, to, t)
Interpolated(tw, now) == lerp(Rat(tw.from, 1), Rat(tw.to, 1), Progress(tw, now))

\* a variant that completes a repeating tween at its first end
TweenAtEndNoRepeat(tw, now) ==
    IF tw.yoyo
    THEN [tw EXCEPT !.from = tw.to, !.to = tw.from,
                    !.start = now, !.end = now + tw.duration,
                    !.repeat = IF tw.repeat # -1 THEN tw.repeat - 1 ELSE tw.repeat,
                    !.completed = tw.repeat # -1 /\ tw.repeat - 1 < 0,
                    !.cycles = tw.cycles + 1]
    ELSE [tw EXCEPT !.repeat = IF tw.repeat # -1 THEN tw.repeat - 1 ELSE tw.repeat,
                    !.completed = TRUE, !.cycles = tw.cycles + 1]

\* "Check if tween is complete": the tween after the yoyo and repeat
\* handling made when now >= tween.end
TweenAtEnd(tw, now) ==
    IF tw.yoyo
    THEN [tw EXCEPT !.from = tw.to, !.to = tw.from,
                    !.start = now, !.end = now + tw.duration,
                    !.repeat = IF tw.repeat # -1 THEN tw.repeat - 1 ELSE tw.repeat,
                    !.completed = tw.repeat # -1 /\ tw.repeat - 1 < 0,
                    !.cycles = tw.cycles + 1]
    ELSE IF tw.repeat # -1
    THEN IF tw.repeat - 1 < 0
         THEN [tw EXCEPT !.repeat = tw.repeat - 1, !.completed = TRUE,
                         !.cycles = tw.cycles + 1]
         ELSE [tw EXCEPT !.repeat = tw.repeat - 1,
                         !.start = now, !.end = now + tw.duration,
                         !.cycles = tw.cycles + 1]
    ELSE [tw EXCEPT !.completed = TRUE, !.cycles = tw.cycles + 1]

\* what one Tweener.update call has done so far: the tweener, the target
\* and, in order, the writes to the target, the onUpdate calls, the tweens
\* whose onComplete was called, the ids of the entries spliced out and the
\* ids passed to stopTween by callbacks
Pass(t, obj, writes, updates, completes, removed, stops) ==
    [t |-> t, target |-> obj, writes |-> writes, updates |-> updates,
     completes |-> completes, removed |-> removed, stops |-> stops]

\* whether onUpdate, handed the value, calls stopTween on its tween
StopsItself(tw, value) == tw.stops /\ value = Rat(tw.to, 1)

\* the body of the loop past the delay handling, for the tween tw found at
\* index i: the value is written and handed to onUpdate, which may stop the
\* tween
TweenInterpolate(a, i, tw, now) ==
    Pass(IF StopsItself(tw, Interpolated(tw, now))
         THEN stopTween(a.t, tw.tweenId)
         ELSE [a.t EXCEPT !.activeTweens[i] = tw],
         [a.target EXCEPT ![tw.property] = Interpolated(tw, now)],
         Append(a.writes, [id |-> tw.tweenId, property |-> tw.property,
                           value |-> Interpolated(tw, now)]),
         Append(a.updates, [id |-> tw.tweenId, value |-> Interpolated(tw, now)]),
         a.completes, a.removed,
         IF StopsItself(tw, Interpolated(tw, now))
         THEN Append(a.stops, tw.tweenId) ELSE a.stops)

\* a variant that leaves a completed tween in the list
TweenCompleteKeep(a, i, tw, after, now) ==
    Pass([ a.t EXCEPT !.activeTweens =
               IF FindIndex(a.t.activeTweens, tw.tweenId) = i
               THEN [a.t.activeTweens EXCEPT ![i] = after]
               ELSE a.t.activeTweens ],
         [a.target EXCEPT ![tw.property] = Rat(tw.to, 1)],
         Append(a.writes, [id |-> tw.tweenId, property |-> tw.property,
                           value |-> Rat(tw.to, 1)]),
         a.updates,
         IF after.completed THEN Append(a.completes, after) ELSE a.completes,
         a.removed, a.stops)

\* a variant that completes a tween without calling onComplete
TweenCompleteSilent(a, i, tw, after, now) ==
    Pass([ activeTweens |->
               IF after.completed THEN Splice(a.t.activeTweens, i)
               ELSE IF FindIndex(a.t.activeTweens, tw.tweenId) = i
               THEN [a.t.activeTweens EXCEPT ![i] = after]
               ELSE a.t.activeTweens,
           tweens |-> IF after.completed THEN a.t.tweens \ {tw.tweenId}
                      ELSE a.t.tweens,
           nextTweenId |-> a.t.nextTweenId ],
         [a.target EXCEPT ![tw.property] = Rat(tw.to, 1)],
         Append(a.writes, [id |-> tw.tweenId, property |-> tw.property,
                           value |-> Rat(tw.to, 1)]),
         a.updates, a.completes,
         IF after.completed /\ i <= Len(a.t.activeTweens)
         THEN Append(a.removed, a.t.activeTweens[i].tweenId) ELSE a.removed,
         a.stops)

\* the body of the loop for now >= tween.end: the target is set to `to`,
\* the tween object becomes `after`, and a completed tween has onComplete
\* called and the entry at its index spliced out
TweenComplete(a, i, tw, after, now) ==
    Pass([ activeTweens |->
               IF after.completed THEN Splice(a.t.activeTweens, i)
               ELSE IF FindIndex(a.t.activeTweens, tw.tweenId) = i
               THEN [a.t.activeTweens EXCEPT ![i] = after]
               ELSE a.t.activeTweens,
           tweens |-> IF after.completed THEN a.t.tweens \ {tw.tweenId}
                      ELSE a.t.tweens,
           nextTweenId |-> a.t.nextTweenId ],
         [a.target EXCEPT ![tw.property] = Rat(tw.to, 1)],
         Append(a.writes, [id |-> tw.tweenId, property |-> tw.property,
                           value |-> Rat(tw.to, 1)]),
         a.updates,
         IF after.completed THEN Append(a.completes, after) ELSE a.completes,
         IF after.completed /\ i <= Len(a.t.activeTweens)
         THEN Append(a.removed, a.t.activeTweens[i].tweenId) ELSE a.removed,
         a.stops)

\* one round of the loop of Tweener.update, for index i counted from 1
TweenerUpdateAt(a, i, now) ==
    IF Delayed(a.t.activeTweens[i], now)
    THEN a
    ELSE IF now >= DelayElapsed(a.t.activeTweens[i], now).end
    THEN TweenComplete(
             TweenInterpolate(a, i, DelayElapsed(a.t.activeTweens[i], now), now),
             i, DelayElapsed(a.t.activeTweens[i], now),
             TweenAtEnd(DelayElapsed(a.t.activeTweens[i], now), now), now)
    ELSE TweenInterpolate(a, i, DelayElapsed(a.t.activeTweens[i], now), now)

\* for (let i = activeTweens.length - 1; i >= 0; i--), from index i down
RECURSIVE TweenerUpdateFrom(_, _, _)
TweenerUpdateFrom(a, i, now) ==
    IF i < 1 THEN a ELSE TweenerUpdateFrom(TweenerUpdateAt(a, i, now), i - 1, now)

\* Tweener.update(deltaTime) at wall-clock time now
TweenerUpdate(t, obj, now) ==
    TweenerUpdateFrom(Pass(t, obj, <<>>, <<>>, <<>>, <<>>, <<>>),
                      Len(t.activeTweens), now)

----------------------------------------------------------------------------
(* Particle.lerpColor (src/8bitge/systems/particles.ts).  A string is the
   sequence of its characters.  A JavaScript number is NaN or a rational:
   the channels and amounts met here are integers, halves and quarters,
   which double arithmetic handles exactly.  No string here holds white
   space or the prefix 0x, which parseInt would skip. *)

NaN == [nan |-> TRUE, v |-> Zero]
Finite(v) == [nan |-> FALSE, v |-> v]

\* color.startsWith(prefix)
startsWith(s, prefix) ==
    Len(prefix) <= Len(s) /\ SubSeq(s, 1, Len(prefix)) = prefix

\* s.substring(from, to), for 0 <= from <= to
substring(s, from, to) ==
    SubSeq(s, (IF from < Len(s) THEN from ELSE Len(s)) + 1,
           IF to < Len(s) THEN to ELSE Len(s))

Digits == <<"0", "1", "2", "3", "4", "5", "6", "7", "8", "9">>
HexLetters == <<"a", "b", "c", "d", "e", "f">>
HexCapitals == <<"A", "B", "C", "D", "E", "F">>

IsDigit(c) == \E i \in 1..10 : Digits[i] = c
IsHexDigit(c) ==
    IsDigit(c) \/ \E i \in 1..6 : HexLetters[i] = c \/ HexCapitals[i] = c

\* the value of a hexadecimal digit
HexValue(c) ==
    IF IsDigit(c) THEN (CHOOSE i \in 1..10 : Digits[i] = c) - 1
    ELSE 9 + (CHOOSE i \in 1..6 : HexLetters[i] = c \/ HexCapitals[i] = c)

\* the digits of s from position i on, read as a number in the base,
\* up to the first character that is no digit of the base
RECURSIVE ParsePrefix(_, _, _, _)
ParsePrefix(s, i, base, value) ==
    IF i > Len(s) \/ ~IsHexDigit(s[i]) THEN value
    ELSE IF HexValue(s[i]) >= base THEN value
    ELSE ParsePrefix(s, i + 1, base, value * base + HexValue(s[i]))

\* parseInt(s, 16): NaN when s does not begin with a digit, after a sign
parseInt16(s) ==
    LET from == IF Len(s) > 0 /\ s[1] \in {"-", "+"} THEN 2 ELSE 1
    IN  IF from > Len(s) \/ ~IsHexDigit(s[from]) THEN NaN
        ELSE Finite(Rat((IF from = 2 /\ s[1] = "-" THEN -1 ELSE 1)
                           * ParsePrefix(s, from, 16, 0), 1))

\* s.match(/\d+/g) when dots is FALSE and s.match(/[\d.]+/g) when it is
\* TRUE: the maximal runs of such characters from position i on, in order;
\* run is the run being read (null, no match at all, is the empty sequence)
RECURSIVE MatchRuns(_, _, _, _)
MatchRuns(s, dots, i, run) ==
    IF i > Len(s) THEN (IF Len(run) > 0 THEN <<run>> ELSE <<>>)
    ELSE IF IsDigit(s[i]) \/ (dots /\ s[i] = ".")
    THEN MatchRuns(s, dots, i + 1, Append(run, s[i]))
    ELSE (IF Len(run) > 0 THEN <<run>> ELSE <<>>) \o MatchRuns(s, dots, i + 1, <<>>)

\* 10^n
RECURSIVE Pow10(_)
Pow10(n) == IF n = 0 THEN 1 ELSE 10 * Pow10(n - 1)

\* Number(run) for a run of digits and dots: NaN with two dots or no digit
ToNumber(run) ==
    LET dotAt == {i \in 1..Len(run) : run[i] = "."}
        digits == SelectSeq(run, IsDigit)
    IN  IF Cardinality(dotAt) > 1 \/ Len(digits) = 0 THEN NaN
        ELSE Finite(Rat(ParsePrefix(digits, 1, 10, 0),
                        IF dotAt = {} THEN 1
                        ELSE Pow10(Len(run) - (CHOOSE i \in dotAt : TRUE))))

White == <<Finite(Rat(255, 1)), Finite(Rat(255, 1)), Finite(Rat(255, 1))>>

\* `color.match(...)?.map(Number).slice(0, 3) || [255, 255, 255]`
FirstThree(runs) ==
    IF Len(runs) = 0 THEN White
    ELSE [i \in 1..(IF Len(runs) < 3 THEN Len(runs) ELSE 3) |-> ToNumber(runs[i])]

\* parseColor(color) of lerpColor; hex is color.substring(1)
parseColor(color) ==
    IF startsWith(color, <<"#">>)
    THEN <<parseInt16(substring(color, 1, 3)),
           parseInt16(substring(color, 3, 5)),
           parseInt16(substring(color, 5, 7))>>
    ELSE IF startsWith(color, <<"r", "g", "b", "a">>)
    THEN FirstThree(MatchRuns(color, TRUE, 1, <<>>))
    ELSE IF startsWith(color, <<"r", "g", "b">>)
    THEN FirstThree(MatchRuns(color, FALSE, 1, <<>>))
    ELSE White

\* c[i] of a parsed color, from 1; a missing element is undefined, which
\* arithmetic turns into NaN
Channel(c, i) == IF i <= Len(c) THEN c[i] ELSE NaN

\* Math.round(x) = floor(x + 0.5)
MathRound(x) ==
    IF x.nan THEN NaN
    ELSE Finite(Rat((2 * x.v[1] + x.v[2]) \div (2 * x.v[2]), 1))

\* lerp(a, b, t) on numbers that may be NaN
lerpNumber(a, b, t) == IF a.nan \/ b.nan THEN NaN ELSE Finite(lerp(a.v, b.v, t))

\* lerpColor(color1, color2, amount): the r, g and b of the string returned
lerpColor(color1, color2, amount) ==
    [i \in 1..3 |->
        MathRound(lerpNumber(Channel(parseColor(color1), i),
                             Channel(parseColor(color2), i), amount))]

----------------------------------------------------------------------------
(* GameEngine (src/8bitge/core.ts) and the animation-frame loop of its
   ParticleSystem.  The browser keeps a list of animation-frame callbacks;
   requestAnimationFrame appends one under a fresh handle and a frame runs
   those pending when it begins, each once.  Of the engine only what the
   loop depends on is kept: state.status, animationFrameId and whether there
   is a canvas.  A World is the engine, the browser's callback list and the
   counts of gameLoop bodies and ParticleSystem.update calls run so far in
   the current step. *)

World(e, f, loops, updates) ==
    [engine |-> e, frames |-> f, loops |-> loops, updates |-> updates]

\* the browser before any request: no handle issued, nothing pending
NoFrames == [next |-> 0, pending |-> <<>>]

\* requestAnimationFrame(callback): the handle returned is f.next + 1
requestAnimationFrame(f, callback) ==
    [next |-> f.next + 1,
     pending |-> Append(f.pending, [handle |-> f.next + 1, callback |-> callback])]

\* cancelAnimationFrame(handle)
cancelAnimationFrame(f, handle) ==
    [f EXCEPT !.pending = SelectSeq(@, LAMBDA c : c.handle # handle)]

\* ParticleSystem.update(): the emitters are updated and drawn and the next
\* frame is requested
ParticleSystemUpdate(w) ==
    [w EXCEPT !.updates = @ + 1,
              !.frames = requestAnimationFrame(@, "ParticleSystem.update")]

\* ParticleSystem.init(canvas)
ParticleSystemInit(w) == ParticleSystemUpdate(w)

\* new GameEngine(options): initSystems() calls particles.init(canvas) when
\* there is a canvas
NewEngine(canvas) ==
    IF canvas
    THEN ParticleSystemInit(World([status |-> "idle", animationFrameId |-> 0,
                                   canvas |-> TRUE], NoFrames, 0, 0))
    ELSE World([status |-> "idle", animationFrameId |-> 0, canvas |-> FALSE],
               NoFrames, 0, 0)

\* GameEngine.update(deltaTime)
GameEngineUpdate(w) ==
    IF w.engine.status # "running" THEN w ELSE ParticleSystemUpdate(w)

\* GameEngine.gameLoop()
gameLoop(w) ==
    IF w.engine.status # "running"
    THEN w
    ELSE [GameEngineUpdate(w) EXCEPT
            !.loops = @ + 1,
            !.engine.animationFrameId = GameEngineUpdate(w).frames.next + 1,
            !.frames = requestAnimationFrame(@, "gameLoop")]

\* `if (this.animationFrameId) cancelAnimationFrame(this.animationFrameId)`
CancelFrame(w) ==
    IF w.engine.animationFrameId # 0
    THEN [w EXCEPT !.frames = cancelAnimationFrame(@, w.engine.animationFrameId)]
    ELSE w

\* GameEngine.start()
GameEngineStart(w) ==
    IF w.engine.status = "running" THEN w
    ELSE gameLoop([w EXCEPT !.engine.status = "running"])

\* GameEngine.pause()
GameEnginePause(w) ==
    IF w.engine.status # "running" THEN w
    ELSE CancelFrame([w EXCEPT !.engine.status = "paused"])

\* GameEngine.resume()
GameEngineResume(w) ==
    IF w.engine.status # "paused" THEN w
    ELSE gameLoop([w EXCEPT !.engine.status = "running"])

\* GameEngine.end()
GameEngineEnd(w) ==
    IF w.engine.status = "ended" THEN w
    ELSE CancelFrame([w EXCEPT !.engine.status = "ended"])

\* GameEngine.reset()
GameEngineReset(w) == [w EXCEPT !.engine.status = "idle"]

\* one animation-frame callback
RunCallback(w, c) ==
    IF c.callback = "gameLoop" THEN gameLoop(w) ELSE ParticleSystemUpdate(w)

\* the callbacks of one frame from the i-th on, in the order requested
RECURSIVE RunCallbacksFrom(_, _, _)
RunCallbacksFrom(w, callbacks, i) ==
    IF i > Len(callbacks) THEN w
    ELSE RunCallbacksFrom(RunCallback(w, callbacks[i]), callbacks, i + 1)

\* the browser runs an animation frame: the callbacks pending when it begins
AnimationFrame(w) ==
    RunCallbacksFrom([w EXCEPT !.frames.pending = <<>>], w.frames.pending, 1)

----------------------------------------------------------------------------
(* EventEmitter (src/8bitge/utils/animation.ts), for one event name.  The
   object is whether `this.events[event]` exists and the array it holds.  A
   listener is a function: fn tells one function from another and once says
   that it is the wrapper once() builds, which removes itself and then calls
   the function it wraps. *)

Listener(fn, isOnce) == [fn |-> fn, once |-> isOnce]

\* `private events = {}`
NewEventEmitter == [present |-> FALSE, listeners |-> <<>>]

\* on(event, callback)
on(ee, cb) ==
    [present |-> TRUE,
     listeners |-> Append(IF ee.present THEN ee.listeners ELSE <<>>, cb)]

\* `this.events[event].indexOf(callback)`, from 1, and 0 for -1
indexOf(list, cb) ==
    IF \E i \in 1..Len(list) : list[i] = cb
    THEN CHOOSE i \in 1..Len(list) :
            /\ list[i] = cb
            /\ \A j \in 1..(i - 1) : list[j] # cb
    ELSE 0

\* off(event, callback)
off(ee, cb) ==
    IF ~ee.present THEN ee
    ELSE IF indexOf(ee.listeners, cb) # 0
    THEN [ee EXCEPT !.listeners = Splice(@, indexOf(ee.listeners, cb))]
    ELSE ee

\* off(event), and clear()
offAll(ee) == NewEventEmitter

\* once(event, callback): the wrapper is registered
once(ee, fn) == on(ee, Listener(fn, TRUE))

\* the call of one listener during an emit: the wrapper of once() calls
\* off on itself before the function it wraps
CallListener(ee, cb) == IF cb.once THEN off(ee, cb) ELSE ee

\* `for (const callback of this.events[event])` from position i on: the
\* iterator reads the array as it is when each step begins.  calls is the
\* sequence of the functions called so far.
RECURSIVE EmitFrom(_, _, _)
EmitFrom(ee, i, calls) ==
    IF i > Len(ee.listeners)
    THEN [ee |-> ee, calls |-> calls]
    ELSE EmitFrom(CallListener(ee, ee.listeners[i]), i + 1,
                  Append(calls, ee.listeners[i].fn))

\* emit(event, data)
emit(ee) ==
    IF ~ee.present THEN [ee |-> ee, calls |-> <<>>] ELSE EmitFrom(ee, 1, <<>>)

----------------------------------------------------------------------------
(* The stand-alone particle driven by a host *)

\* the emitter of a run that drives the stand-alone particle only
IdleEmitterOptions ==
    [emissionRate |-> 0, burstCount |-> 0, maxParticles |-> 0, duration |-> 0,
     loop |-> FALSE,
     particleOptions |-> [lifetime |-> 0,
                          opacity |-> [kind |-> "undefined", a |-> One, b |-> One],
                          fadeOut |-> "undefined"],
     lifetimeVariance |-> Zero]

InitEmitterWith(options) ==
    /\ emitter = NewEmitter(options)
    /\ eOp = "new"
    /\ eDt = 0
    /\ ticked = 0
    /\ emitted = 0
    /\ newborn = <<>>
    /\ refused = FALSE
    /\ started = FALSE
    /\ bursted = 0

\* a freshly constructed ParticleSystem and Animator
InitSystemWith(sys) ==
    /\ system = sys
    /\ sCall = Call("new", "", "", 0, 0, 0)

ACall(op, id, reset, dt, ret, events, threw, ended) ==
    [op |-> op, id |-> id, reset |-> reset, dt |-> dt, ret |-> ret,
     events |-> events, threw |-> threw, ended |-> ended]

InitAnimatorWith(a) ==
    /\ animator = a
    /\ aCall = ACall("new", "", FALSE, 0, TRUE, <<>>, FALSE, 0)

\* the last call on the Tweener: its name, the tween id passed or returned,
\* what an update did (see Pass) and the ids stopped so far
TCall(op, id, a, stopped) ==
    [op |-> op, id |-> id, writes |-> a.writes, updates |-> a.updates,
     completes |-> a.completes, removed |-> a.removed, stops |-> a.stops,
     stopped |-> stopped]

\* a call that is no update
NoPass == Pass(NewTweener, <<>>, <<>>, <<>>, <<>>, <<>>, <<>>)

InitTweenerWith(t) ==
    /\ tweener = t
    /\ target = [property \in Properties |-> Zero]
    /\ clock = 0
    /\ tCall = TCall("new", 0, NoPass, {})

\* the last step of the engine's world: the call or frame, and how many
\* gameLoop bodies and ParticleSystem.update calls ran in it
GCall(op, w) == [op |-> op, loops |-> w.loops, updates |-> w.updates]

InitEngineWith(w) ==
    /\ engine = w.engine
    /\ animationFrames = w.frames
    /\ gCall = GCall("new", w)

\* the last call made on the EventEmitter: the functions registered when it
\* began, those it called in order, and the functions and emits made so far
EvCall(op, before, calls, made, emits) ==
    [op |-> op, before |-> before, calls |-> calls, made |-> made,
     emits |-> emits]

InitEventEmitter ==
    /\ eventEmitter = NewEventEmitter
    /\ listenerCalls = [fn \in 1..MaxListeners |-> 0]
    /\ evCall = EvCall("new", <<>>, <<>>, 0, 0)

\* no call of applyEasing or lerpColor made
InitFunctions ==
    /\ easeCall = [op |-> "none"]
    /\ colorCall = [op |-> "none"]

InitParticle ==
    /\ \E options \in ParticleOptions :
          /\ particle = NewParticle(options)
          /\ body = NewBody(options)
          /\ pStart = [onStart |-> IF options.onStart THEN 1 ELSE 0, over |-> FALSE]
    /\ updateResult = TRUE
    /\ onEndCalls = 0
    /\ pOp = "new"
    /\ pDt = 0
    /\ InitEmitterWith(IdleEmitterOptions)
    /\ InitSystemWith(NewSystem)
    /\ InitAnimatorWith(NewAnimator)
    /\ InitTweenerWith(NewTweener)
    /\ InitEngineWith(NewEngine(FALSE))
    /\ InitEventEmitter
    /\ InitFunctions

\* host: alive = particle.update(deltaTime)
ParticleUpdated(r) ==
    /\ particle' = r.p
    /\ updateResult' = r.ret
    /\ onEndCalls' = IF r.ended THEN onEndCalls + 1 ELSE onEndCalls

UpdateParticle(deltaTime) ==
    /\ ParticleUpdated(ParticleUpdate(particle, deltaTime))
    /\ body' = IF ParticleUpdate(particle, deltaTime).ret
               THEN ParticlePhysics(body, deltaTime)
               ELSE body
    /\ pStart' = [onStart |-> 0, over |-> ~particle.active]
    /\ pOp' = "update"
    /\ pDt' = deltaTime
    /\ UNCHANGED notParticle

\* host: particle.reset(options)
ResetParticle(options) ==
    /\ particle' = ParticleReset(particle, body, options).p
    /\ body' = ParticleReset(particle, body, options).body
    /\ pStart' = [onStart |-> ParticleReset(particle, body, options).onStart,
                  over |-> ~particle.active]
    /\ updateResult' = TRUE
    /\ onEndCalls' = 0
    /\ pOp' = "reset"
    /\ pDt' = 0
    /\ UNCHANGED notParticle

NextParticle ==
    \/ \E deltaTime \in DeltaTimes : UpdateParticle(deltaTime)
    \/ \E options \in ParticleOptions : ResetParticle(options)

SpecParticle == InitParticle /\ [][NextParticle]_vars

----------------------------------------------------------------------------
(* The emitter driven by a host *)

\* the stand-alone particle of a run that drives the emitter only
InitParticleWith(options) ==
    /\ particle = NewParticle(options)
    /\ body = NewBody(options)
    /\ pStart = [onStart |-> 0, over |-> FALSE]
    /\ updateResult = TRUE
    /\ onEndCalls = 0
    /\ pOp = "new"
    /\ pDt = 0

IdleParticleOptions ==
    [lifetime |-> 0, opacity |-> [kind |-> "undefined", a |-> One, b |-> One],
     fadeOut |-> "undefined", position |-> Vector2D(0, 0), velocity |-> NoVector,
     acceleration |-> NoVector, onStart |-> FALSE]

InitEmitter ==
    /\ \E options \in EmitterOptions : InitEmitterWith(options)
    /\ InitParticleWith(IdleParticleOptions)
    /\ InitSystemWith(NewSystem)
    /\ InitAnimatorWith(NewAnimator)
    /\ InitTweenerWith(NewTweener)
    /\ InitEngineWith(NewEngine(FALSE))
    /\ InitEventEmitter
    /\ InitFunctions

\* host: emitter.start()
Started(r) ==
    /\ emitter' = r.e
    /\ refused' = r.refused
    /\ bursted' = r.made

StartEmitter ==
    /\ emitter.maxParticles > 0 \/ Len(emitter.particles) + emitter.burstCount <= MaxLive
    /\ \E base \in RandomBases(emitter.burstCount) : Started(EmitterStart(emitter, base))
    /\ eOp' = "start"
    /\ eDt' = 0
    /\ newborn' = <<>>
    /\ started' = TRUE
    /\ UNCHANGED <<ticked, emitted, notEmitter>>

\* host: emitter.stop()
StopEmitter ==
    /\ emitter' = EmitterStop(emitter)
    /\ eOp' = "stop"
    /\ refused' = FALSE
    /\ eDt' = 0
    /\ newborn' = <<>>
    /\ bursted' = 0
    /\ UNCHANGED started
    /\ UNCHANGED <<ticked, emitted, notEmitter>>

\* host: emitter.burst(count)
BurstEmitter(count) ==
    /\ emitter.maxParticles > 0 \/ Len(emitter.particles) + count <= MaxLive
    /\ \E base \in RandomBases(count) : Started(EmitterBurst(emitter, count, base, 0))
    /\ eOp' = "burst"
    /\ eDt' = 0
    /\ newborn' = <<>>
    /\ UNCHANGED started
    /\ UNCHANGED <<ticked, emitted, notEmitter>>

\* host: emitter.update(deltaTime), explored up to `limit` ms of active time
Updated(r, deltaTime) ==
    /\ emitter' = r.e
    /\ refused' = r.refused
    /\ newborn' = r.newborn
    /\ emitted' = emitted + r.made
    /\ bursted' = r.burst
    /\ ticked' = IF r.ran THEN ticked + deltaTime ELSE ticked

UpdateEmitterWithin(deltaTime, limit) ==
    /\ emitter.active => ticked + deltaTime <= limit
    /\ \E base \in RandomBases(UpdateDraws(emitter, deltaTime)) :
          Updated(EmitterUpdate(emitter, deltaTime, base), deltaTime)
    /\ eOp' = "update"
    /\ eDt' = deltaTime
    /\ UNCHANGED <<started, notEmitter>>

UpdateEmitter(deltaTime) == UpdateEmitterWithin(deltaTime, MaxTime * 50)

NextEmitter ==
    \/ StartEmitter
    \/ StopEmitter
    \/ \E count \in 1..MaxBurst : BurstEmitter(count)
    \/ \E deltaTime \in EmitterDeltaTimes : UpdateEmitter(deltaTime)

SpecEmitter == InitEmitter /\ [][NextEmitter]_vars

----------------------------------------------------------------------------
(* An emitter made from the explosion preset, started and updated (never
   stopped) by a host *)

InitExplosion ==
    /\ \E scale \in {0, 1} : InitEmitterWith(ExplosionPreset(scale))
    /\ InitParticleWith(IdleParticleOptions)
    /\ InitSystemWith(NewSystem)
    /\ InitAnimatorWith(NewAnimator)
    /\ InitTweenerWith(NewTweener)
    /\ InitEngineWith(NewEngine(FALSE))
    /\ InitEventEmitter
    /\ InitFunctions

UpdateExplosion(deltaTime) == UpdateEmitterWithin(deltaTime, MaxExplosionTime * 100)

NextExplosion ==
    \/ StartEmitter
    \/ \E deltaTime \in ExplosionDeltaTimes : UpdateExplosion(deltaTime)

SpecExplosion == InitExplosion /\ [][NextExplosion]_vars

\* the number of particles a burst of `count` can add to emitter e: all of
\* them without a cap, otherwise at most the free capacity under the cap
ClaimedBurst(e, count) ==
    IF e.maxParticles = 0
    THEN count
    ELSE IF getParticleCount(e) >= e.maxParticles
    THEN 0
    ELSE IF count < e.maxParticles - getParticleCount(e)
    THEN count
    ELSE e.maxParticles - getParticleCount(e)

\* what C11 says of start(): the emitter is active, its age is 0 and
\* min(burstCount, free capacity) particles were added to the list
ClaimedStart ==
    eOp' = "start" =>
        /\ emitter'.active
        /\ emitter'.age = 0
        /\ bursted' = ClaimedBurst(emitter, emitter.burstCount)
        /\ getParticleCount(emitter') = getParticleCount(emitter) + bursted'
        /\ SubSeq(emitter'.particles, 1, getParticleCount(emitter)) = emitter.particles

\* what C11 says of update(dt) before the first start()
ClaimedInertUpdate ==
    (eOp' = "update" /\ ~started') =>
        /\ emitter' = emitter
        /\ emitted' = emitted
        /\ bursted' = 0

C12_DurationAndLoop ==
    [][(eOp' = "update" /\ emitter.active) =>
          IF emitter.duration > 0 /\ emitter.age + eDt' >= emitter.duration
          THEN IF emitter.loop
               THEN /\ emitter'.active
                    /\ emitter'.age = 0
                    /\ bursted' = ClaimedBurst(emitter, emitter.burstCount)
               ELSE /\ ~emitter'.active
                    /\ emitted' = emitted
                    /\ bursted' = 0
                    /\ emitter'.particles = emitter.particles
          ELSE /\ emitter'.active
               /\ emitter'.age = emitter.age + eDt'
               /\ bursted' = 0]_vars

\* a loop restart whose burst was cut short by the cap
C12_Witness ==
    /\ eOp = "update"
    /\ emitter.loop
    /\ emitter.age = 0
    /\ ticked > 0
    /\ bursted = 1
    /\ emitter.burstCount = 2

----------------------------------------------------------------------------
(* The ParticleSystem driven by a host, with image loads finishing in between *)

\* the ids a host uses for emitters and images
Ids == {"a", "b"}
\* the preset names a host asks for: the built-ins, one it registers itself
\* and one nobody registers
PresetNames == BuiltInPresets \cup {"custom", "missing"}
\* the options.scale values a host passes (0 stands for an absent scale)
Scales == 0..MaxScale
\* the EmitterOptions a host passes to createEmitter
HostOptions == {ExplosionPreset(0), SmokePreset(2)}

InitSystem ==
    /\ InitSystemWith(NewSystem)
    /\ InitParticleWith(IdleParticleOptions)
    /\ InitEmitterWith(IdleEmitterOptions)
    /\ InitAnimatorWith(NewAnimator)
    /\ InitTweenerWith(NewTweener)
    /\ InitEngineWith(NewEngine(FALSE))
    /\ InitEventEmitter
    /\ InitFunctions

\* host: system.createEmitter(id, options)
CreateEmitter(id, options) ==
    /\ system.objects < MaxObjects
    /\ system' = createEmitter(system, id, options)
    /\ sCall' = Call("createEmitter", id, "", 0, system.objects + 1, options)
    /\ UNCHANGED notSystem

\* host: system.createEmitterFromPreset(id, presetName, {scale})
CreatedFromPreset(r, id, presetName, scale) ==
    /\ system' = r.sys
    /\ sCall' = Call("createEmitterFromPreset", id, presetName, scale, r.ret,
                     r.emitter)

CreateEmitterFromPreset(id, presetName, scale) ==
    /\ system.objects < MaxObjects
    /\ CreatedFromPreset(createEmitterFromPreset(system, id, presetName, scale),
                         id, presetName, scale)
    /\ UNCHANGED notSystem

\* host: system.removeEmitter(id)
RemoveEmitter(id) ==
    /\ system' = removeEmitter(system, id)
    /\ sCall' = Call("removeEmitter", id, "", 0, 0, 0)
    /\ UNCHANGED notSystem

\* host: system.registerPreset(name, presetFn)
RegisterPreset(name) ==
    /\ system' = registerPreset(system, name, "custom")
    /\ sCall' = Call("registerPreset", "", name, 0, 0, 0)
    /\ UNCHANGED notSystem

\* host: system.loadImage(id, src)
LoadImage(id) ==
    /\ system.objects < MaxObjects
    /\ system' = loadImage(system, id)
    /\ sCall' = Call("loadImage", id, "", 0, 0, 0)
    /\ UNCHANGED notSystem

\* browser: the image of a load in flight has loaded, or has failed
ImageLoaded ==
    /\ \E load \in system.loading : system' = onload(system, load)
    /\ sCall' = Call("onload", "", "", 0, 0, 0)
    /\ UNCHANGED notSystem

ImageFailed ==
    /\ \E load \in system.loading : system' = onerror(system, load)
    /\ sCall' = Call("onerror", "", "", 0, 0, 0)
    /\ UNCHANGED notSystem

\* host: system.destroy()
Destroy ==
    /\ system' = destroy(system)
    /\ sCall' = Call("destroy", "", "", 0, 0, 0)
    /\ UNCHANGED notSystem

NextSystem ==
    \/ \E id \in Ids, options \in HostOptions : CreateEmitter(id, options)
    \/ \E id \in Ids, presetName \in PresetNames, scale \in Scales :
          CreateEmitterFromPreset(id, presetName, scale)
    \/ \E id \in Ids : RemoveEmitter(id)
    \/ \E name \in {"custom", "explosion"} : RegisterPreset(name)
    \/ \E id \in Ids : LoadImage(id)
    \/ ImageLoaded
    \/ ImageFailed
    \/ Destroy

SpecSystem == InitSystem /\ [][NextSystem]_vars

----------------------------------------------------------------------------
(* The Animator driven by a host *)

\* the deltaTime values (ms) a host passes to Animator.update
AnimatorDeltaTimes == {50, 100, 150}
\* the animation ids a host plays ("none" is never registered)
AnimationIds == {"walk", "bounce", "once", "blink", "none"}

InitAnimator ==
    /\ InitAnimatorWith(NewAnimator)
    /\ InitTweenerWith(NewTweener)
    /\ InitEngineWith(NewEngine(FALSE))
    /\ InitEventEmitter
    /\ InitFunctions
    /\ InitParticleWith(IdleParticleOptions)
    /\ InitEmitterWith(IdleEmitterOptions)
    /\ InitSystemWith(NewSystem)

\* host: animator.registerAnimation(animation)
RegisterAnimation(object) ==
    /\ animator' = registerAnimation(animator, object)
    /\ aCall' = ACall("registerAnimation", Animations[object].id, FALSE, 0, TRUE,
                      <<>>, FALSE, 0)
    /\ UNCHANGED notAnimator

\* host: animator.setEventHandler(handler)
SetEventHandler ==
    /\ animator' = setEventHandler(animator)
    /\ aCall' = ACall("setEventHandler", "", FALSE, 0, TRUE, <<>>, FALSE, 0)
    /\ UNCHANGED notAnimator

\* host: animator.play(animationId, resetIfSame)
Played(r, animationId, resetIfSame) ==
    /\ animator' = r.a
    /\ aCall' = ACall("play", animationId, resetIfSame, 0, r.ret, <<>>, FALSE, 0)

PlayAnimation(animationId, resetIfSame) ==
    /\ Played(AnimatorPlay(animator, animationId, resetIfSame), animationId, resetIfSame)
    /\ UNCHANGED notAnimator

\* host: animator.pause(), resume(), stop()
PauseAnimation ==
    /\ animator' = AnimatorPause(animator)
    /\ aCall' = ACall("pause", "", FALSE, 0, TRUE, <<>>, FALSE, 0)
    /\ UNCHANGED notAnimator

ResumeAnimation ==
    /\ animator' = AnimatorResume(animator)
    /\ aCall' = ACall("resume", "", FALSE, 0, TRUE, <<>>, FALSE, 0)
    /\ UNCHANGED notAnimator

StopAnimation ==
    /\ animator' = AnimatorStop(animator)
    /\ aCall' = ACall("stop", "", FALSE, 0, TRUE, <<>>, FALSE, 0)
    /\ UNCHANGED notAnimator

\* host: animator.update(deltaTime); `ended` is 1 when this update stopped
\* the animation at its end, 2 when an earlier one did and only updates were
\* made since, 0 otherwise
AnimatorUpdated(r, deltaTime) ==
    /\ animator' = r.a
    /\ aCall' = ACall("update", "", FALSE, deltaTime, TRUE, r.events, r.threw,
                      IF animator.playing /\ ~r.a.playing THEN 1
                      ELSE IF aCall.op = "update" /\ aCall.ended > 0 THEN 2
                      ELSE 0)

UpdateAnimation(deltaTime) ==
    /\ animator.playing => animator.frameTime + deltaTime <= MaxFrameTime * 50
    /\ AnimatorUpdated(AnimatorUpdate(animator, deltaTime), deltaTime)
    /\ UNCHANGED notAnimator

NextAnimator ==
    \/ \E object \in 1..Len(Animations) : RegisterAnimation(object)
    \/ SetEventHandler
    \/ \E animationId \in AnimationIds, resetIfSame \in BOOLEAN :
          PlayAnimation(animationId, resetIfSame)
    \/ PauseAnimation
    \/ ResumeAnimation
    \/ StopAnimation
    \/ \E deltaTime \in AnimatorDeltaTimes : UpdateAnimation(deltaTime)

SpecAnimator == InitAnimator /\ [][NextAnimator]_vars

----------------------------------------------------------------------------
(* Claims about ParticleSystem *)

\* the last call created an emitter under sCall.id
CreatedEmitter(call) ==
    call.op \in {"createEmitter", "createEmitterFromPreset"} /\ call.ret # 0

\* C13: createEmitter(id, ...) or a successful createEmitterFromPreset(id, ...)
\* with an id that is already registered replaces the mapping: afterwards
\* getEmitter(id) is the newly created emitter, the previous emitter is not
\* returned by getEmitter for any id, and the other ids map as before.
C13_CreateReplaces ==
    [][(CreatedEmitter(sCall') /\ sCall'.id \in DOMAIN system.emitters) =>
          /\ getEmitter(system', sCall'.id) = sCall'.ret
          /\ \A id \in DOMAIN system.emitters : system.emitters[id] # sCall'.ret
          /\ \A id \in Ids : getEmitter(system', id) # getEmitter(system, sCall'.id)
          /\ \A id \in Ids \ {sCall'.id} :
                 getEmitter(system', id) = getEmitter(system, id)]_vars

\* the third emitter made was registered under "a" while "b" keeps the first
C13_Witness ==
    /\ CreatedEmitter(sCall)
    /\ sCall.id = "a"
    /\ sCall.ret = 3
    /\ getEmitter(system, "a") = 3
    /\ getEmitter(system, "b") = 1

\* C14: createEmitterFromPreset(id, name, options) with a name that is not a
\* registered preset returns null and leaves the emitter table (and the rest
\* of the system) unchanged.
C14_UnknownPresetReturnsNull ==
    [][(sCall'.op = "createEmitterFromPreset" /\ sCall'.name \notin DOMAIN system.presets)
          => /\ sCall'.ret = 0
             /\ system'.emitters = system.emitters
             /\ system' = system]_vars

\* an unknown preset was asked for under an id that holds an emitter
C14_Witness ==
    /\ sCall.op = "createEmitterFromPreset"
    /\ sCall.name = "missing"
    /\ sCall.ret = 0
    /\ getEmitter(system, sCall.id) = 2

\* a vector and a size with every component multiplied by s
Times(v, s) == [i \in 1..Len(v) |-> s * v[i]]

\* the fields of preset result o are those of result `unit` with the size,
\* velocity, variance, emission-rate, burst and maxParticles fields times s
ScaledBy(o, unit, s) ==
    /\ o.emissionRate = s * unit.emissionRate
    /\ o.burstCount = s * unit.burstCount
    /\ o.maxParticles = s * unit.maxParticles
    /\ o.particleOptions.size = Times(unit.particleOptions.size, s)
    /\ o.particleOptions.velocity = Times(unit.particleOptions.velocity, s)
    /\ o.velocityVariance = Times(unit.velocityVariance, s)
    /\ o.positionVariance = Times(unit.positionVariance, s)

\* what C15 says of an explosion at scale s
ClaimedExplosion(o, s) ==
    /\ o.burstCount = 30 * s
    /\ o.maxParticles = 30 * s
    /\ o.velocityVariance = <<400 * s, 400 * s>>
    /\ o.particleOptions.lifetime = 800
    /\ o.lifetimeVariance = Rat(1, 5)
    /\ o.duration = 0
    /\ o.particleOptions.blendMode = "lighter"

C16_DestroyClearsTables ==
    [][sCall'.op = "destroy" =>
          /\ \A id \in Ids : getEmitter(system', id) = 0 /\ getImage(system', id) = 0
          /\ DOMAIN system'.emitters = {} /\ DOMAIN system'.images = {}
          /\ system'.presets = system.presets]_vars

\* a system that made three emitters and images, none of them still loading,
\* and registered a preset of its own, was destroyed
C16_Witness ==
    /\ sCall.op = "destroy"
    /\ system.objects = 3
    /\ system.loading = {}
    /\ "custom" \in DOMAIN system.presets
    /\ DOMAIN system.emitters = {}

----------------------------------------------------------------------------
(* Claims about Animator *)

\* the animation object that is current (the animator has one)
Current(a) == Animations[a.currentAnimation]

\* the update about to be made with deltaTime completes the current frame
CompletesFrame(a, deltaTime) ==
    /\ a.playing
    /\ a.currentAnimation # 0
    /\ a.currentFrameIndex \in 0..(Len(Current(a).frames) - 1)
    /\ a.frameTime + AdjustedDelta(Current(a), deltaTime)
           >= FrameDuration(Current(a), a.currentFrameIndex)

\* the frame after frame i in 0,1,2,0,1,2,... and, moving in direction d, in
\* 0,1,2,1,0,1,2,1,...
ClaimedLoopNext(i) == (i + 1) % 3
ClaimedPingPongNext(i, d) ==
    IF d > 0 THEN (IF i < 2 THEN i + 1 ELSE 1) ELSE (IF i > 0 THEN i - 1 ELSE 1)

\* C17: a 3-frame animation in which every update advances one frame visits
\* 0,1,2,0,1,2,... with loop = true (pingPong false) and 0,1,2,1,0,1,2,1,...
\* with pingPong = true (loop either value), and playing stays true.
C17_LoopAndPingPongOrder ==
    [][(/\ aCall'.op = "update"
        /\ CompletesFrame(animator, aCall'.dt)
        /\ Len(Current(animator).frames) = 3
        /\ Current(animator).loop \/ Current(animator).pingPong)
          => /\ animator'.playing
             /\ animator'.currentFrameIndex =
                    IF Current(animator).pingPong
                    THEN ClaimedPingPongNext(animator.currentFrameIndex,
                                             animator.direction)
                    ELSE ClaimedLoopNext(animator.currentFrameIndex)]_vars

\* a ping-pong animation that also loops is on its way back, at frame 1
\* after frame 2
C17_Witness ==
    /\ aCall.op = "update"
    /\ animator.playing
    /\ animator.currentAnimation = 4
    /\ animator.currentFrameIndex = 1
    /\ animator.direction = -1

\* C18: play(id) without resetIfSame on the animation that is already current
\* changes only playing (to true); play(id, true) or play of another
\* registered animation sets frame index 0, frameTime 0, direction +1 and
\* playing; play of an unregistered id returns false and changes nothing.
C18_PlayResetsOnlyOnChange ==
    [][aCall'.op = "play" =>
          IF aCall'.id \notin DOMAIN animator.animations
          THEN ~aCall'.ret /\ animator' = animator
          ELSE IF animator.animations[aCall'.id] = animator.currentAnimation
                  /\ ~aCall'.reset
          THEN aCall'.ret /\ animator' = [animator EXCEPT !.playing = TRUE]
          ELSE /\ aCall'.ret
               /\ animator'.currentAnimation = animator.animations[aCall'.id]
               /\ animator'.currentFrameIndex = 0
               /\ animator'.frameTime = 0
               /\ animator'.direction = 1
               /\ animator'.playing]_vars

\* play(id) without reset found the ping-pong animation on its way back in
\* the middle of frame 1 and left it there
C18_Witness ==
    /\ aCall.op = "play"
    /\ ~aCall.reset
    /\ aCall.ret
    /\ animator.playing
    /\ animator.currentFrameIndex = 1
    /\ animator.frameTime = 50
    /\ animator.direction = -1

\* C19: pause() sets playing to false and leaves the current animation, frame
\* index and frameTime alone, so that resume() continues from there; stop()
\* sets playing to false and frame index and frameTime to 0; update(dt) of an
\* animator that is not playing changes nothing.
C19_PauseKeepsStopResets ==
    [][/\ aCall'.op = "pause" => animator' = [animator EXCEPT !.playing = FALSE]
       /\ aCall'.op = "resume" =>
              animator' = [animator EXCEPT !.playing = (animator.currentAnimation # 0)
                                                           \/ animator.playing]
       /\ aCall'.op = "stop" =>
              /\ ~animator'.playing
              /\ animator'.currentFrameIndex = 0
              /\ animator'.frameTime = 0
       /\ (aCall'.op = "update" /\ ~animator.playing) =>
              animator' = animator /\ aCall'.events = <<>>]_vars

\* a paused animation was resumed in the middle of frame 1
C19_Witness ==
    /\ aCall.op = "resume"
    /\ animator.playing
    /\ animator.currentFrameIndex = 1
    /\ animator.frameTime = 50

\* C20: with neither loop nor pingPong, the update on which the last frame's
\* duration has elapsed sets playing to false and leaves the frame index at
\* the last frame; every later update(dt) leaves frame index and frameTime
\* unchanged.
C20_StopsAtLastFrame ==
    [][aCall'.op = "update" =>
          /\ (/\ CompletesFrame(animator, aCall'.dt)
              /\ ~Current(animator).loop /\ ~Current(animator).pingPong
              /\ animator.currentFrameIndex = Len(Current(animator).frames) - 1)
                 => /\ ~animator'.playing
                    /\ animator'.currentFrameIndex = animator.currentFrameIndex
                    /\ aCall'.ended = 1
          /\ aCall.ended > 0 =>
                 /\ aCall'.ended = 2
                 /\ ~animator'.playing
                 /\ animator'.currentFrameIndex = animator.currentFrameIndex
                 /\ animator'.frameTime = animator.frameTime]_vars

\* an update was made after the animation "once" had ended on its last frame
C20_Witness ==
    /\ aCall.op = "update"
    /\ aCall.ended = 2
    /\ aCall.dt = 150
    /\ animator.currentAnimation = 3
    /\ animator.currentFrameIndex = 2
    /\ ~animator.playing

----------------------------------------------------------------------------
(* Claims about ParticleEmitter *)

\* C1: with maxParticles > 0 the number of live particles never exceeds
\* maxParticles, whatever start, stop, burst and update calls are made; an
\* emission attempted at the cap is dropped.
C1_ParticleCap ==
    emitter.maxParticles > 0 => getParticleCount(emitter) <= emitter.maxParticles

\* a burst that was cut short at the cap
C1_Witness ==
    /\ eOp = "burst"
    /\ refused
    /\ emitter.maxParticles = 2
    /\ getParticleCount(emitter) = 2

\* C2: an update(dt), dt > 0, of an emitter that is no longer active (stopped,
\* or past its duration without loop) and still holds particles ages those
\* particles, so that the list eventually drains and isActive() turns false.
C2_StoppedEmitterKeepsAging ==
    [][(eOp' = "update" /\ eDt' > 0 /\ ~emitter.active /\ getParticleCount(emitter) > 0)
          => \A i \in 1..Len(emitter'.particles) :
                 \E j \in 1..Len(emitter.particles) :
                     /\ emitter'.particles[i].lifetime = emitter.particles[j].lifetime
                     /\ emitter'.particles[i].age > emitter.particles[j].age]_vars

\* C3: an explosion emitter (scale 1) holds exactly 30 particles right after
\* start(), never more than 30, and once updates have expired every particle
\* isActive() is false.
C3_ExplosionLifeCycle ==
    /\ eOp = "start" => getParticleCount(emitter) = 30
    /\ getParticleCount(emitter) <= 30
    /\ (eOp = "update" /\ getParticleCount(emitter) = 0) => ~isActive(emitter)

\* C4: with emissionRate r > 0, no cap and no duration, the particles made by
\* continuous emission over updates that sum to T ms number exactly
\* floor(r * T / 1000), however T is cut into ticks.
C4_ExactEmissionCount ==
    (emitter.emissionRate > 0 /\ emitter.maxParticles = 0 /\ emitter.duration = 0)
        => emitted = (emitter.emissionRate * ticked) \div 1000

\* C5 as stated: the particles an update creates by continuous emission have
\* age 0 when that update returns.
C5_NewbornNotAged ==
    eOp = "update" => \A i \in 1..Len(newborn) : newborn[i].age = 0

\* C5 as amended: the particles an update(dt) creates by continuous emission
\* are updated by that same call: each has age dt when it returns, and one
\* whose lifetime is at most dt is already expired and pruned.
C5_NewbornAgedInSameTick ==
    eOp = "update" =>
        \A i \in 1..Len(newborn) :
            /\ newborn[i].age = eDt
            /\ newborn[i].active <=> eDt < newborn[i].lifetime

\* an update whose newborn particle lived 100 ms and was pruned in the same call
C5_Witness ==
    /\ eOp = "update"
    /\ eDt = 100
    /\ Len(newborn) > 0
    /\ newborn[1].lifetime = 100
    /\ ~newborn[1].active
    /\ getParticleCount(emitter) = 0

----------------------------------------------------------------------------
(* Claims about Particle *)

\* C6: Particle.update returns true exactly while the resulting age is below
\* the lifetime: false on the first call where age >= lifetime and on every
\* later call.
C6_UpdateReturnsAlive ==
    pOp = "update" =>
        /\ updateResult <=> particle.age < particle.lifetime
        /\ updateResult <=> particle.active

\* a call made after the expiring one: with lifetime 100 the expiring call
\* leaves age 150 only as 50 + 100, so a last deltaTime of 50 came later
C6_Witness ==
    /\ pOp = "update"
    /\ ~updateResult
    /\ particle.lifetime = 100
    /\ particle.age = 150
    /\ pDt = 50

\* C7 as stated: every update(dt) with dt > 0 strictly increases age, also
\* after the particle has expired.
C7_AgeAlwaysIncreases ==
    [][(pOp' = "update" /\ pDt' > 0) => particle'.age > particle.age]_vars

\* C7 as amended: an update(dt) of an active particle adds exactly dt to age
\* (a strict increase when dt > 0); an update of an expired particle leaves
\* age, and every other field, unchanged.
C7_AgeIncreasesWhileActive ==
    [][pOp' = "update" =>
          IF particle.active
          THEN particle'.age = particle.age + pDt'
          ELSE particle' = particle]_vars

\* an update call with dt > 0 that reached an expired particle
C7_Witness ==
    /\ pOp = "update"
    /\ ~particle.active
    /\ particle.lifetime = 200
    /\ particle.age = 250
    /\ pDt = 50

\* C8: onEnd runs exactly once per life, on the update where age first
\* reaches lifetime: never before, and not again on later updates.
C8_OnEndExactlyOnce ==
    /\ particle.active <=> particle.age < particle.lifetime
    /\ onEndCalls = IF particle.active THEN 0 ELSE 1

\* an update with deltaTime 0 cannot be the expiring one, so it came later
C8_Witness ==
    /\ pOp = "update"
    /\ ~particle.active
    /\ pDt = 0
    /\ onEndCalls = 1

\* C9 as stated: with fadeOut, once age has reached lifetime the opacity
\* field is exactly 0.
C9_OpacityZeroAtEnd ==
    (particle.fadeOut /\ particle.age >= particle.lifetime) => particle.opacity = Zero

\* C9 as amended: with fadeOut, an update that leaves the particle inactive
\* (the expiring one or a later one) does not touch the opacity field: it
\* keeps the value of the last update that left the particle active.
C9_OpacityKeptAtEnd ==
    [][(pOp' = "update" /\ particle'.fadeOut /\ ~particle'.active)
          => particle'.opacity = particle.opacity]_vars

\* an expired fadeOut particle whose opacity field is not 0
C9_Witness ==
    /\ pOp = "update"
    /\ particle.fadeOut
    /\ ~particle.active
    /\ particle.age >= particle.lifetime
    /\ particle.opacity # Zero

\* the opacity the claim gives for a particle at progress age / lifetime
ClaimedOpacity(p) ==
    LET progress == Rat(p.age, p.lifetime)
    IN  IF p.fadeOut
        THEN IF RLe(progress, Rat(3, 4))
             THEN lerp(p.startOpacity, p.endOpacity, RDiv(progress, Rat(3, 4)))
             ELSE lerp(p.endOpacity, Zero, RDiv(RSub(progress, Rat(3, 4)), Rat(1, 4)))
        ELSE lerp(p.startOpacity, p.endOpacity, progress)

\* C10: after an update that leaves the particle active, opacity is the
\* piecewise function of progress = age / lifetime alone (two ramps meeting
\* at 0.75 with fadeOut, one ramp without), whatever ticks led there.
C10_OpacityIsFunctionOfProgress ==
    (pOp = "update" /\ particle.active) => particle.opacity = ClaimedOpacity(particle)

\* a fading particle in the last quarter of its life, between end and 0
C10_Witness ==
    /\ pOp = "update"
    /\ particle.active
    /\ particle.fadeOut
    /\ particle.lifetime = 250
    /\ particle.age = 200
    /\ particle.startOpacity = Rat(1, 2)
    /\ particle.endOpacity = Rat(3, 10)
    /\ particle.opacity = Rat(6, 25)

----------------------------------------------------------------------------
(* Claims about the events delivered by Animator.update *)

\* the names of the current animation's events at frame index i, in order
ClaimedEvents(a, i) ==
    LET hits == SelectSeq(Current(a).events, LAMBDA e : e.frame = i)
    IN  [k \in 1..Len(hits) |-> hits[k].name]

\* C21: with an event handler set, every frame-indexed event of the current
\* animation is delivered exactly once per visit to its frame index, on the
\* update call in which that frame is departed and before currentFrameIndex
\* changes; it is not delivered when the frame is entered.
C21_EventsOnDeparture ==
    [][IF aCall'.op = "update" /\ animator.eventHandler
          /\ CompletesFrame(animator, aCall'.dt)
       THEN /\ aCall'.events = ClaimedEvents(animator, animator.currentFrameIndex)
            /\ aCall'.events # <<>> =>
                   \/ animator'.currentFrameIndex # animator.currentFrameIndex
                   \/ Len(Current(animator).frames) = 1
       ELSE aCall'.events = <<>>]_vars

\* C21 as the code has it: the events of the current frame are delivered,
\* each once and in order, on every update on which that frame's duration
\* elapses, before the boundary handling, whether or not the frame is then
\* left: the update that stops a non-looping animation on its last frame
\* delivers that frame's events and stays there.  No other call delivers
\* events.
C21_EventsWhenFrameCompletes ==
    [][IF aCall'.op = "update" /\ animator.eventHandler
          /\ CompletesFrame(animator, aCall'.dt)
       THEN /\ aCall'.events = ClaimedEvents(animator, animator.currentFrameIndex)
            /\ (aCall'.events # <<>>
                /\ animator'.currentFrameIndex = animator.currentFrameIndex)
                   => \/ Len(Current(animator).frames) = 1
                      \/ aCall'.ended = 1
       ELSE aCall'.events = <<>>]_vars

\* the update that ended the animation "once" delivered the two events of
\* its last frame
C21_Witness ==
    /\ aCall.op = "update"
    /\ aCall.events = <<"done", "last">>
    /\ aCall.ended = 1
    /\ animator.currentFrameIndex = 2

----------------------------------------------------------------------------
(* Claims about Particle.reset and the particle's motion, checked under    *)
(* SpecParticle                                                            *)

\* C29: Particle.reset(options), applied to a particle in any prior state
\* (including expired), leaves it with the same field values as a newly
\* constructed Particle(options): age 0, active true, all option-derived
\* fields re-resolved, and onStart invoked once.
C29_ResetIsConstruction ==
    [][\A options \in ParticleOptions :
          ResetParticle(options) =>
              /\ particle' = NewParticle(options)
              /\ body' = NewBody(options)
              /\ particle'.age = 0
              /\ particle'.active
              /\ pStart'.onStart = (IF options.onStart THEN 1 ELSE 0)]_vars

\* an expired particle was reset to a moving one and onStart ran once
C29_Witness ==
    /\ pOp = "reset"
    /\ pStart.over
    /\ pStart.onStart = 1
    /\ particle.age = 0
    /\ particle.active
    /\ particle.lifetime = 250
    /\ body.velocity = Vector2D(100, -200)

\* v + a * dt / 1000 on one axis
ClaimedStep(v, a, dt) == RAdd(v, RMul(a, Rat(dt, 1000)))

\* C30: on every Particle.update(dt) that leaves the particle active,
\* velocity is first increased by acceleration*dt/1000 and position is then
\* increased by the already-updated velocity*dt/1000 (semi-implicit Euler),
\* on each axis independently.
C30_SemiImplicitEuler ==
    [][(pOp' = "update" /\ particle'.active) =>
          /\ body'.acceleration = body.acceleration
          /\ body'.velocity.x = ClaimedStep(body.velocity.x, body.acceleration.x, pDt')
          /\ body'.velocity.y = ClaimedStep(body.velocity.y, body.acceleration.y, pDt')
          /\ body'.position.x = ClaimedStep(body.position.x, body'.velocity.x, pDt')
          /\ body'.position.y = ClaimedStep(body.position.y, body'.velocity.y, pDt')]_vars

\* the first update, of 100 ms, of a particle at (10, 20) with velocity
\* (100, -200) and acceleration (-200, 400)
C30_Witness ==
    /\ pOp = "update"
    /\ pDt = 100
    /\ particle.active
    /\ particle.age = 100
    /\ body.acceleration = Vector2D(-200, 400)
    /\ body.velocity = Vector2D(80, -160)
    /\ body.position = Vector2D(18, 4)

----------------------------------------------------------------------------
(* The Tweener driven by a host, with the wall clock advancing in between *)

\* how far the wall clock advances between two calls that read it
ClockSteps == {50}

\* the deltaTime a host passes to Tweener.update()
TweenerDeltaTimes == {50}

\* the tweens a host creates, from 0 to 100 in 100 ms: the first with or
\* without delay, yoyo and repeat, or with an onUpdate that stops it; the
\* later ones plain tweens of either property
TweenOptions(n) ==
    IF n = 1
    THEN [property : {"x"}, from : {0}, to : {100}, duration : {100},
          delay : {0, 100}, yoyo : BOOLEAN, repeat : {-1, 0, 1}, stops : {FALSE}]
         \cup
         [property : {"x"}, from : {0}, to : {100}, duration : {100},
          delay : {0}, yoyo : {FALSE}, repeat : {0, 1}, stops : {TRUE}]
    ELSE [property : Properties, from : {0}, to : {100}, duration : {100},
          delay : {0}, yoyo : {FALSE}, repeat : {0}, stops : {FALSE}]

InitTweener ==
    /\ InitParticleWith(IdleParticleOptions)
    /\ InitEmitterWith(IdleEmitterOptions)
    /\ InitSystemWith(NewSystem)
    /\ InitAnimatorWith(NewAnimator)
    /\ InitTweenerWith(NewTweener)
    /\ InitEngineWith(NewEngine(FALSE))
    /\ InitEventEmitter
    /\ InitFunctions

\* time passes
Tick(step) ==
    /\ clock < MaxClock * step
    /\ clock' = clock + step
    /\ tCall' = TCall("tick", 0, NoPass, tCall.stopped)
    /\ UNCHANGED <<tweener, target, notTweener>>

\* host: id = tweener.tween(target, options)
CreateTween(options) ==
    /\ tweener.nextTweenId < MaxTweens
    /\ tweener' = TweenerTween(tweener, options, clock)
    /\ tCall' = TCall("tween", tweener.nextTweenId + 1, NoPass, tCall.stopped)
    /\ UNCHANGED <<target, clock, notTweener>>

\* host: tweener.stopTween(`tween_id`)
StopTween(id) ==
    /\ tweener' = stopTween(tweener, id)
    /\ tCall' = TCall("stopTween", id, NoPass,
                      IF id \in tweener.tweens THEN tCall.stopped \cup {id}
                      ELSE tCall.stopped)
    /\ UNCHANGED <<target, clock, notTweener>>

\* host: tweener.stopAll()
StopAll ==
    /\ tweener' = stopAll(tweener)
    /\ tCall' = TCall("stopAll", 0, NoPass, tCall.stopped)
    /\ UNCHANGED <<target, clock, notTweener>>

TweenerUpdated(a, deltaTime) ==
    /\ tweener' = a.t
    /\ target' = a.target
    /\ tCall' = TCall("update", 0, a,
                      tCall.stopped \cup {a.stops[k] : k \in 1..Len(a.stops)})

\* host: tweener.update(deltaTime)
UpdateTweener(deltaTime) ==
    /\ TweenerUpdated(TweenerUpdate(tweener, target, clock), deltaTime)
    /\ UNCHANGED <<clock, notTweener>>

NextTweener ==
    \/ \E step \in ClockSteps : Tick(step)
    \/ \E options \in TweenOptions(tweener.nextTweenId + 1) : CreateTween(options)
    \/ \E id \in 1..MaxTweens : StopTween(id)
    \/ StopAll
    \/ \E deltaTime \in TweenerDeltaTimes : UpdateTweener(deltaTime)

SpecTweener == InitTweener /\ [][NextTweener]_vars

----------------------------------------------------------------------------
(* Claims about Tweener, checked under SpecTweener: `clock` is the time the
   update of a step reads, tweener.activeTweens the tweens it finds *)

\* the elements of a sequence
Range(seq) == {seq[k] : k \in 1..Len(seq)}

\* the tweens of the active set and their ids
ActiveTweens(t) == Range(t.activeTweens)
ActiveIds(t) == {tw.tweenId : tw \in ActiveTweens(t)}

\* the log entries of one tween
Of(log, tw) == SelectSeq(log, LAMBDA e : e.id = tw.tweenId)

\* the tween has reached its end time when an update is made at time now
Due(tw, now) == tw.delayElapsed /\ now >= tw.end

\* the value between from and to at time now, for timing that started at s
ClaimedValue(tw, s, now) ==
    IF now - s >= tw.duration THEN Rat(tw.to, 1)
    ELSE Rat(tw.from * (tw.duration - (now - s)) + tw.to * (now - s), tw.duration)

\* C22: for a tween created with delay d > 0, no Tweener.update call made
\* while the wall-clock time is before creation time + d writes
\* target[property] or calls onUpdate; after the delay has passed, every
\* update call writes the interpolated value to target[property] and calls
\* onUpdate with it until the tween is removed.
C22_DelayHoldsTweenBack ==
    [][tCall'.op = "update" =>
          \A tw \in ActiveTweens(tweener) :
              tw.delay > 0 =>
                  IF clock < tw.created + tw.delay
                  THEN /\ Of(tCall'.writes, tw) = <<>>
                       /\ Of(tCall'.updates, tw) = <<>>
                  ELSE /\ Len(Of(tCall'.writes, tw)) >= 1
                       /\ Of(tCall'.writes, tw)[1] =
                              [id |-> tw.tweenId, property |-> tw.property,
                               value |-> ClaimedValue(tw, IF tw.delayElapsed THEN tw.start
                                                          ELSE clock, clock)]
                       /\ Of(tCall'.updates, tw) =
                              << [id |-> tw.tweenId,
                                  value |-> Of(tCall'.writes, tw)[1].value] >>]_vars

\* a tween created at 0 with a delay of 100 ms, found past its delay by an
\* update at 150 ms, is half way at 200 ms
C22_Witness ==
    /\ tCall.op = "update"
    /\ clock = 200
    /\ tCall.updates = << [id |-> 1, value |-> Rat(50, 1)] >>
    /\ \E tw \in ActiveTweens(tweener) :
           tw.delay = 100 /\ tw.created = 0 /\ tw.start = 150

\* C23: a numeric tween with repeat = 0 and no yoyo calls onComplete exactly
\* once, on the first update whose wall-clock time is at or past its end,
\* and after that call target[property] equals the tween's `to` value
\* exactly and the tween is no longer active.
C23_CompletesOnceAtEnd ==
    [][tCall'.op = "update" =>
          \A tw \in ActiveTweens(tweener) :
              (tw.repeat = 0 /\ ~tw.yoyo) =>
                  IF Due(tw, clock)
                  THEN /\ Len(SelectSeq(tCall'.completes,
                                        LAMBDA c : c.tweenId = tw.tweenId)) = 1
                       /\ Of(tCall'.writes, tw)[Len(Of(tCall'.writes, tw))].value
                              = Rat(tw.to, 1)
                       /\ (\A e \in Range(tCall'.writes) :
                               e.property = tw.property => e.id = tw.tweenId)
                              => target'[tw.property] = Rat(tw.to, 1)
                       /\ tw.tweenId \notin ActiveIds(tweener')
                       /\ tw.tweenId \notin tweener'.tweens
                  ELSE \A c \in Range(tCall'.completes) : c.tweenId # tw.tweenId]_vars

\* the only tween, plain, has completed: the target is at 100 and no tween
\* is active
C23_Witness ==
    /\ tCall.op = "update"
    /\ Len(tCall.completes) = 1
    /\ tCall.completes[1].repeat0 = 0
    /\ ~tCall.completes[1].yoyo
    /\ ~tCall.completes[1].stops
    /\ target["x"] = Rat(100, 1)
    /\ tweener.activeTweens = <<>>
    /\ tweener.nextTweenId = 1

\* C24: a tween created with repeat = -1 repeats indefinitely, with or
\* without yoyo: no Tweener.update call ever marks it completed, calls its
\* onComplete or removes it from the active set; only stopTween or stopAll
\* removes it.
C24_InfiniteRepeat ==
    [][tCall'.op = "update" =>
          \A tw \in ActiveTweens(tweener) :
              tw.repeat0 = -1 =>
                  /\ tw.tweenId \in ActiveIds(tweener')
                  /\ \A c \in Range(tCall'.completes) : c.tweenId # tw.tweenId]_vars

\* C25: a tween with yoyo = true that reaches its end time swaps from/to and
\* restarts its timing instead of terminating: with repeat = 0 it is not
\* completed or removed at the end of the forward leg but interpolates back
\* to its original `from` value, and onComplete fires only after that
\* return leg.
C25_YoyoReturns ==
    [][tCall'.op = "update" =>
          \A tw \in ActiveTweens(tweener) :
              (tw.yoyo /\ tw.repeat0 = 0 /\ tw.cycles = 0 /\ Due(tw, clock)) =>
                  /\ \A c \in Range(tCall'.completes) : c.tweenId # tw.tweenId
                  /\ \E after \in ActiveTweens(tweener') :
                         /\ after.tweenId = tw.tweenId
                         /\ after.from = tw.to
                         /\ after.to = tw.from
                         /\ after.start = clock]_vars

\* C26: a non-yoyo tween created with repeat = n >= 0 runs exactly n+1 full
\* from-to cycles: its repeat counter decreases by one at each cycle end,
\* its timing restarts while cycles remain, and onComplete is called exactly
\* once, at the end of the last cycle and never earlier.  (A tween stopped
\* by stopTween runs no further.)
C26_RepeatRunsCycles ==
    [][tCall'.op = "update" =>
          \A tw \in ActiveTweens(tweener) :
              (~tw.yoyo /\ tw.repeat0 >= 0 /\ tw.tweenId \notin Range(tCall'.stops)) =>
                  /\ tw.cycles + tw.repeat = tw.repeat0
                  /\ IF Due(tw, clock) /\ tw.repeat >= 1
                     THEN /\ \A c \in Range(tCall'.completes) : c.tweenId # tw.tweenId
                          /\ \E after \in ActiveTweens(tweener') :
                                 /\ after.tweenId = tw.tweenId
                                 /\ after.repeat = tw.repeat - 1
                                 /\ after.cycles = tw.cycles + 1
                                 /\ after.from = tw.from /\ after.to = tw.to
                                 /\ after.start = clock
                                 /\ after.end = clock + tw.duration
                     ELSE IF Due(tw, clock)
                     THEN /\ Len(SelectSeq(tCall'.completes,
                                           LAMBDA c : c.tweenId = tw.tweenId)) = 1
                          /\ \A c \in Range(tCall'.completes) :
                                 c.tweenId = tw.tweenId => c.cycles = tw.repeat0 + 1
                          /\ tw.tweenId \notin ActiveIds(tweener')
                     ELSE /\ \A c \in Range(tCall'.completes) : c.tweenId # tw.tweenId
                          /\ \A after \in ActiveTweens(tweener') :
                                 after.tweenId = tw.tweenId =>
                                     /\ after.repeat = tw.repeat
                                     /\ after.cycles = tw.cycles]_vars

\* a tween created with repeat = 1 has completed at the end of its second
\* cycle
C26_Witness ==
    /\ tCall.op = "update"
    /\ \E c \in Range(tCall.completes) :
           ~c.yoyo /\ ~c.stops /\ c.repeat0 = 1 /\ c.cycles = 2 /\ c.repeat = -1

\* C27: stopTween(id) removes the named tween immediately: its onComplete is
\* never called afterwards, no later update writes its target property,
\* every other active tween is left untouched, and stopTween with an unknown
\* or already-removed id changes nothing.
C27_StopTweenRemoves ==
    [][/\ tCall'.op = "stopTween" =>
              /\ tweener'.activeTweens =
                     SelectSeq(tweener.activeTweens, LAMBDA tw : tw.tweenId # tCall'.id)
              /\ tweener'.nextTweenId = tweener.nextTweenId
              /\ target' = target
              /\ tCall'.id \notin ActiveIds(tweener) => tweener' = tweener
       /\ tCall'.op = "update" =>
              /\ \A id \in tCall.stopped :
                     /\ \A c \in Range(tCall'.completes) : c.tweenId # id
                     /\ \A e \in Range(tCall'.writes) : e.id # id
              /\ \A id \in Range(tCall'.stops) :
                     /\ \A c \in Range(tCall'.completes) : c.tweenId # id
                     /\ ActiveTweens(tweener') =
                            {DelayElapsed(tw, clock) : tw \in
                                 {a \in ActiveTweens(tweener) : a.tweenId # id}}]_vars

\* what of C27 holds: stopTween called by the host between two updates
\* removes the tween and nothing else, and no update in which no callback
\* calls stopTween writes for a stopped tween or calls its onComplete
C27_StopTweenBetweenUpdates ==
    [][/\ tCall'.op = "stopTween" =>
              /\ tweener'.activeTweens =
                     SelectSeq(tweener.activeTweens, LAMBDA tw : tw.tweenId # tCall'.id)
              /\ tweener'.nextTweenId = tweener.nextTweenId
              /\ target' = target
              /\ tCall'.id \notin ActiveIds(tweener) => tweener' = tweener
       /\ (tCall'.op = "update" /\ tCall'.stops = <<>>) =>
              \A id \in tCall.stopped :
                  /\ \A c \in Range(tCall'.completes) : c.tweenId # id
                  /\ \A e \in Range(tCall'.writes) : e.id # id]_vars

\* C28: under Tweener.update alone, a tween leaves the active set exactly on
\* the tick at which its completed flag is set: no tween that is not
\* completed is removed by update, and no completed tween stays in the
\* active set after the update that completed it.
C28_RemovedWhenCompleted ==
    [][(tCall'.op = "update" /\ tCall'.stops = <<>>) =>
          /\ \A tw \in ActiveTweens(tweener') : ~tw.completed
          /\ ActiveIds(tweener') =
                 ActiveIds(tweener) \ {c.tweenId : c \in Range(tCall'.completes)}
          /\ tweener'.tweens =
                 tweener.tweens \ {c.tweenId : c \in Range(tCall'.completes)}
          /\ Range(tCall'.removed) = {c.tweenId : c \in Range(tCall'.completes)}
          /\ \A c \in Range(tCall'.completes) : c.completed
          /\ [k \in 1..Len(tweener'.activeTweens) |-> tweener'.activeTweens[k].tweenId]
                 = [k \in 1..Len(SelectSeq(tweener.activeTweens,
                                           LAMBDA tw : tw.tweenId \in ActiveIds(tweener')))
                        |-> SelectSeq(tweener.activeTweens,
                                      LAMBDA tw : tw.tweenId \in ActiveIds(tweener'))[k].tweenId]]_vars

\* of two tweens the second created has completed and left the active set,
\* the first, which repeats, stays
C28_Witness ==
    /\ tCall.op = "update"
    /\ tCall.stops = <<>>
    /\ Len(tCall.completes) = 1
    /\ tCall.completes[1].tweenId = 2
    /\ tCall.removed = <<2>>
    /\ ActiveIds(tweener) = {1}

----------------------------------------------------------------------------
(* Claims about the frame index of the Animator, checked under SpecAnimator *)

\* C33: whenever an Animator has a current animation with at least one
\* frame, currentFrameIndex is a valid index (0 <= currentFrameIndex <
\* frames.length) after any sequence of play, pause, resume, stop and update
\* calls, for every frame count >= 1 and every combination of loop and
\* pingPong.
C33_FrameIndexValid ==
    (animator.currentAnimation # 0 /\ Len(Current(animator).frames) >= 1) =>
        animator.currentFrameIndex \in 0..(Len(Current(animator).frames) - 1)

\* what of C33 holds: the index is valid in every animation of two or more
\* frames, and in one-frame animations without pingPong
C33_FrameIndexValidButOneFramePingPong ==
    (/\ animator.currentAnimation # 0
     /\ Len(Current(animator).frames) >= 1
     /\ ~(Len(Current(animator).frames) = 1 /\ Current(animator).pingPong)) =>
        animator.currentFrameIndex \in 0..(Len(Current(animator).frames) - 1)

\* C34: a single Animator.update(dt) call moves currentFrameIndex by at most
\* one step and delivers the events of at most one frame, however large dt
\* is relative to the frame durations; the unused time stays in frameTime
\* and is consumed by later updates.
C34_OneFramePerUpdate ==
    [][(aCall'.op = "update" /\ ~aCall'.threw) =>
          /\ \/ animator'.currentFrameIndex = animator.currentFrameIndex
             \/ /\ CompletesFrame(animator, aCall'.dt)
                /\ \/ animator'.currentFrameIndex
                          = animator.currentFrameIndex + animator.direction
                   \/ animator'.currentFrameIndex
                          = animator.currentFrameIndex - animator.direction
                   \/ /\ Current(animator).loop
                      /\ animator'.currentFrameIndex
                             \in {0, Len(Current(animator).frames) - 1}
          /\ \/ aCall'.events = <<>>
             \/ aCall'.events = ClaimedEvents(animator, animator.currentFrameIndex)
          /\ animator'.frameTime =
                 IF CompletesFrame(animator, aCall'.dt)
                 THEN animator.frameTime + AdjustedDelta(Current(animator), aCall'.dt)
                      - FrameDuration(Current(animator), animator.currentFrameIndex)
                 ELSE IF animator.playing /\ animator.currentAnimation # 0
                 THEN animator.frameTime + AdjustedDelta(Current(animator), aCall'.dt)
                 ELSE animator.frameTime]_vars

\* an update of 150 ms at double speed left frame 0 of "once" for frame 1
\* with 200 ms in frameTime, the whole duration of frame 1
C34_Witness ==
    /\ aCall.op = "update"
    /\ aCall.dt = 150
    /\ animator.currentAnimation # 0
    /\ Current(animator).id = "once"
    /\ animator.currentFrameIndex = 1
    /\ animator.frameTime = 200
    /\ animator.frameTime >= FrameDuration(Current(animator), 1)

----------------------------------------------------------------------------
(* Claims about calls made on the Tweener by tween callbacks, checked under
   SpecTweener *)

\* C35: calling stopTween(id) from inside a tween's own onUpdate or
\* onComplete callback during Tweener.update removes only the named tween:
\* no other tween that is neither completed nor stopped is removed from the
\* active set by that update.
C35_CallbackStopRemovesOnlyNamed ==
    [][(tCall'.op = "update" /\ tCall'.stops # <<>>) =>
          \A tw \in ActiveTweens(tweener) :
              tw.tweenId \notin ActiveIds(tweener') =>
                  \/ tw.tweenId \in Range(tCall'.stops)
                  \/ \E c \in Range(tCall'.completes) : c.tweenId = tw.tweenId]_vars

\* C36: after any sequence of tween, stopTween, stopAll and update calls
\* (including calls made from tween callbacks), the set of ids in the
\* Tweener's id table equals the set of ids of the tweens in its active
\* list, and no tween id is ever issued twice.
C36_IdTableMatchesActiveList ==
    /\ tweener.tweens = ActiveIds(tweener)
    /\ \A i, j \in 1..Len(tweener.activeTweens) :
           tweener.activeTweens[i].tweenId = tweener.activeTweens[j].tweenId => i = j
    /\ \A id \in tweener.tweens \cup ActiveIds(tweener) : id \in 1..tweener.nextTweenId
    /\ tCall.op = "tween" => tCall.id = tweener.nextTweenId

\* what of C36 holds: ids are issued once and the keys of the id table
\* include the ids of the active list
C36_IdsIssuedOnce ==
    /\ ActiveIds(tweener) \subseteq tweener.tweens
    /\ \A i, j \in 1..Len(tweener.activeTweens) :
           tweener.activeTweens[i].tweenId = tweener.activeTweens[j].tweenId => i = j
    /\ \A id \in tweener.tweens : id \in 1..tweener.nextTweenId
    /\ tCall.op = "tween" => tCall.id = tweener.nextTweenId

----------------------------------------------------------------------------
(* A claim about the emission accumulator, checked under SpecEmitter *)

\* C37: after every ParticleEmitter.update(dt) with dt >= 0, the emission
\* accumulator satisfies 0 <= emissionAccumulator < 1: whole emissions that
\* the maxParticles cap refuses in a tick are discarded, not carried over to
\* later ticks, and start()/stop() leave the accumulator unchanged.  (A
\* double of the model is 0 or m * 2^e with m > 0, so it is never negative.)
C37_AccumulatorBelowOne ==
    [][/\ eOp' = "update" => DoubleFloor(emitter'.emissionAccumulator) = 0
       /\ eOp' \in {"start", "stop"} =>
              emitter'.emissionAccumulator = emitter.emissionAccumulator]_vars

\* with 2 of at most 2 particles alive, an update of 100 ms at 25 particles
\* per second accumulated 2.5, was refused by the cap and kept 0.5
C37_Witness ==
    /\ eOp = "update"
    /\ eDt = 100
    /\ refused
    /\ emitter.emissionRate = 25
    /\ Len(emitter.particles) = emitter.maxParticles
    /\ emitter.emissionAccumulator = DoubleDiv(1, 2)

----------------------------------------------------------------------------
(* The GameEngine driven by a host, with the browser running animation
   frames in between *)

InitEngine ==
    /\ InitParticleWith(IdleParticleOptions)
    /\ InitEmitterWith(IdleEmitterOptions)
    /\ InitSystemWith(NewSystem)
    /\ InitAnimatorWith(NewAnimator)
    /\ InitTweenerWith(NewTweener)
    /\ \E canvas \in BOOLEAN : InitEngineWith(NewEngine(canvas))
    /\ InitEventEmitter
    /\ InitFunctions

\* the world a step begins with
Now == World(engine, animationFrames, 0, 0)

\* a step that leaves the world as w, within the handles explored
EngineStep(op, w) ==
    /\ w.frames.next <= MaxHandles
    /\ engine' = w.engine
    /\ animationFrames' = w.frames
    /\ gCall' = GCall(op, w)
    /\ UNCHANGED notEngine

\* host: game.start(), game.pause(), game.resume(), game.end(), game.reset()
StartGame == EngineStep("start", GameEngineStart(Now))
PauseGame == EngineStep("pause", GameEnginePause(Now))
ResumeGame == EngineStep("resume", GameEngineResume(Now))
EndGame == EngineStep("end", GameEngineEnd(Now))
ResetGame == EngineStep("reset", GameEngineReset(Now))

\* host: game.particles.init(canvas)
InitParticles ==
    /\ engine.canvas
    /\ EngineStep("init", ParticleSystemInit(Now))

\* browser: an animation frame
Frame == EngineStep("frame", AnimationFrame(Now))

NextEngine ==
    \/ StartGame
    \/ PauseGame
    \/ ResumeGame
    \/ EndGame
    \/ ResetGame
    \/ InitParticles
    \/ Frame

SpecEngine == InitEngine /\ [][NextEngine]_vars

----------------------------------------------------------------------------
(* The EventEmitter driven by a host *)

InitEvents ==
    /\ InitParticleWith(IdleParticleOptions)
    /\ InitEmitterWith(IdleEmitterOptions)
    /\ InitSystemWith(NewSystem)
    /\ InitAnimatorWith(NewAnimator)
    /\ InitTweenerWith(NewTweener)
    /\ InitEngineWith(NewEngine(FALSE))
    /\ InitEventEmitter
    /\ InitFunctions

\* the functions of a listener array, in order
Functions(list) == [i \in 1..Len(list) |-> list[i].fn]

\* a call other than emit, which leaves the object as ee
EventCall(op, ee, made) ==
    /\ eventEmitter' = ee
    /\ evCall' = EvCall(op, Functions(eventEmitter.listeners), <<>>, made,
                        evCall.emits)
    /\ UNCHANGED listenerCalls
    /\ UNCHANGED notEvents

\* host: emitter.on(event, fn) and emitter.once(event, fn) with a new function
Register(isOnce) ==
    /\ evCall.made < MaxListeners
    /\ EventCall(IF isOnce THEN "once" ELSE "on",
                 IF isOnce THEN once(eventEmitter, evCall.made + 1)
                 ELSE on(eventEmitter, Listener(evCall.made + 1, FALSE)),
                 evCall.made + 1)

\* host: emitter.off(event, fn) with a function handed to on() earlier
Unregister(fn) ==
    /\ fn <= evCall.made
    /\ EventCall("off", off(eventEmitter, Listener(fn, FALSE)), evCall.made)

\* host: emitter.off(event) or emitter.clear()
UnregisterAll == EventCall("clear", offAll(eventEmitter), evCall.made)

\* the number of times fn occurs in calls
CallsOf(calls, fn) == Cardinality({i \in 1..Len(calls) : calls[i] = fn})

\* host: emitter.emit(event, data)
Emit ==
    /\ evCall.emits < MaxEmits
    /\ eventEmitter' = emit(eventEmitter).ee
    /\ listenerCalls' = [fn \in 1..MaxListeners |->
                            listenerCalls[fn] + CallsOf(emit(eventEmitter).calls, fn)]
    /\ evCall' = EvCall("emit", Functions(eventEmitter.listeners),
                        emit(eventEmitter).calls, evCall.made, evCall.emits + 1)
    /\ UNCHANGED notEvents

NextEvents ==
    \/ \E isOnce \in BOOLEAN : Register(isOnce)
    \/ \E fn \in 1..MaxListeners : Unregister(fn)
    \/ UnregisterAll
    \/ Emit

SpecEvents == InitEvents /\ [][NextEvents]_vars

----------------------------------------------------------------------------
(* applyEasing applied to the curves and to sixteenths of the unit interval *)

\* the t values applied: the multiples of 1 / 2^TBits in 0..1, and for the
\* elastic curves 0 and 1
TValues(easing) ==
    IF easing \in {"elasticIn", "elasticOut"} THEN {0, 2^TBits}
    ELSE 0..(2^TBits)

EaseCall(op, easing, k, result) ==
    [op |-> op, easing |-> easing, k |-> k, result |-> result]

InitEasing ==
    /\ InitParticleWith(IdleParticleOptions)
    /\ InitEmitterWith(IdleEmitterOptions)
    /\ InitSystemWith(NewSystem)
    /\ InitAnimatorWith(NewAnimator)
    /\ InitTweenerWith(NewTweener)
    /\ InitEngineWith(NewEngine(FALSE))
    /\ InitEventEmitter
    /\ colorCall = [op |-> "none"]
    /\ \E easing \in EasingFunctions : \E k \in TValues(easing) :
          easeCall = EaseCall("t", easing, k, Num(0, 1))

\* this.applyEasing(t, easing) with t = k / 2^TBits
ApplyEasing ==
    /\ easeCall.op = "t"
    /\ easeCall' = EaseCall("applyEasing", easeCall.easing, easeCall.k,
                            applyEasing(Num(easeCall.k, 2^TBits), easeCall.easing))
    /\ UNCHANGED colorCall
    /\ UNCHANGED notFunctions

NextEasing == ApplyEasing

SpecEasing == InitEasing /\ [][NextEasing]_vars

----------------------------------------------------------------------------
(* lerpColor applied to pairs of color strings *)

\* the color strings handed to lerpColor
Colors ==
    {<<"#", "f", "f", "0", "0", "0", "0">>,
     <<"#", "0", "0", "0", "0", "f", "f">>,
     <<"#", "a", "b", "c">>,
     <<"#", "g", "g", "0", "0", "0", "0">>,
     <<"#", "1", "2">>,
     <<"r", "g", "b", "(", "0", ",", " ", "2", "5", "5", ",", " ", "0", ")">>,
     <<"r", "g", "b", "(", "3", "0", "0", ",", " ", "0", ",", " ", "0", ")">>,
     <<"r", "g", "b", "(", "1", ",", " ", "2", ")">>,
     <<"r", "g", "b", "(", ")">>,
     <<"r", "g", "b", "a", "(", "0", ",", " ", "1", "2", "8", ",", " ", "2", "5", "5", ",", " ", "0", ".", "5", ")">>,
     <<"r", "g", "b", "a", "(", "1", ".", "5", ".", "2", ",", " ", "0", ",", " ", "0", ",", " ", "1", ")">>,
     <<"r", "e", "d">>,
     <<"h", "s", "l", "(", "1", "2", "0", ",", " ", "1", "0", "0", "%", ",", " ", "5", "0", "%", ")">>}

\* those of them that are '#rrggbb', 'rgb(r, g, b)' or 'rgba(r, g, b, a)' with
\* channels in 0..255
WellFormedColors ==
    {<<"#", "f", "f", "0", "0", "0", "0">>,
     <<"#", "0", "0", "0", "0", "f", "f">>,
     <<"r", "g", "b", "(", "0", ",", " ", "2", "5", "5", ",", " ", "0", ")">>,
     <<"r", "g", "b", "a", "(", "0", ",", " ", "1", "2", "8", ",", " ", "2", "5", "5", ",", " ", "0", ".", "5", ")">>}

\* the amounts handed to lerpColor
Amounts == {Rat(0, 1), Rat(1, 4), Rat(1, 2), Rat(3, 4)}

ColorCall(op, color1, color2, amount, result) ==
    [op |-> op, color1 |-> color1, color2 |-> color2, amount |-> amount,
     result |-> result]

InitColor ==
    /\ InitParticleWith(IdleParticleOptions)
    /\ InitEmitterWith(IdleEmitterOptions)
    /\ InitSystemWith(NewSystem)
    /\ InitAnimatorWith(NewAnimator)
    /\ InitTweenerWith(NewTweener)
    /\ InitEngineWith(NewEngine(FALSE))
    /\ InitEventEmitter
    /\ easeCall = [op |-> "none"]
    /\ \E color1 \in Colors, color2 \in Colors, amount \in Amounts :
          colorCall = ColorCall("colors", color1, color2, amount, White)

\* this.lerpColor(color1, color2, amount)
LerpColor ==
    /\ colorCall.op = "colors"
    /\ colorCall' = ColorCall("lerpColor", colorCall.color1, colorCall.color2,
                              colorCall.amount,
                              lerpColor(colorCall.color1, colorCall.color2,
                                        colorCall.amount))
    /\ UNCHANGED easeCall
    /\ UNCHANGED notFunctions

NextColor == LerpColor

SpecColor == InitColor /\ [][NextColor]_vars

----------------------------------------------------------------------------
(* Claims about the animation-frame loops *)

\* the pending animation-frame callbacks that run the named function
Pending(callback) ==
    Len(SelectSeq(animationFrames.pending, LAMBDA c : c.callback = callback))

\* C38: a ParticleSystem has at most one pending animation-frame callback at
\* any time, after any sequence of init() calls and GameEngine.update ticks,
\* so the emitters are updated once per frame.  ParticleSystem.update()
\* requests a frame on every call, also when GameEngine.update calls it, so
\* each tick of a running game starts one more loop: this is violated.
C38_OneParticleCallback ==
    /\ Pending("ParticleSystem.update") <= 1
    /\ gCall.op = "frame" => gCall.updates <= 1

\* what does hold: no pending callback is ever lost, so the loops of a
\* ParticleSystem only grow in number
C38_ParticleLoopsNeverEnd ==
    [][Pending("ParticleSystem.update")' >= Pending("ParticleSystem.update")]_vars

\* C40: a GameEngine has at most one pending gameLoop callback at any time,
\* under every interleaving of start(), pause(), resume(), end(), reset() and
\* frames, so update runs at most once per animation frame.  reset() makes
\* the status idle and leaves the requested frame pending; a start() before
\* that frame fires requests a second one: this is violated.
C40_OneGameLoopCallback ==
    /\ Pending("gameLoop") <= 1
    /\ gCall.op = "frame" => gCall.loops <= 1

----------------------------------------------------------------------------
(* Claims about EventEmitter *)

\* C39: emit(event) invokes every listener registered for the event when the
\* emit begins exactly once, also when a listener removes itself during the
\* emit, as the listeners of once() do; and a listener registered through
\* once() is invoked at most once over all emits.  The iterator of emit
\* walks the array off() splices, so the listener after a once() listener
\* is passed over: this is violated.
C39_EmitCallsEveryListener ==
    /\ evCall.op = "emit" => evCall.calls = evCall.before
    /\ \A i \in 1..Len(eventEmitter.listeners) :
          eventEmitter.listeners[i].once
             => listenerCalls[eventEmitter.listeners[i].fn] <= 1

\* what does hold: no function is called twice by one emit, the functions
\* called were registered when the emit began and are called in the order of
\* registration, and a function handed to once() that is still registered
\* has never been called, so that none is called more than once over all emits
C39_EmitCallsNoListenerTwice ==
    /\ evCall.op = "emit" =>
          /\ \A i, j \in 1..Len(evCall.calls) :
                i < j => evCall.calls[i] < evCall.calls[j]
          /\ \A i \in 1..Len(evCall.calls) :
                \E j \in 1..Len(evCall.before) :
                   evCall.calls[i] = evCall.before[j]
    /\ \A i \in 1..Len(eventEmitter.listeners) :
          eventEmitter.listeners[i].once
             => listenerCalls[eventEmitter.listeners[i].fn] = 0

----------------------------------------------------------------------------
(* Claims about the easing curves *)

\* the four-segment piecewise formula of bounceOut in exact arithmetic
ClaimedBounceOut(t) ==
    IF RLt(t, Rat(4, 11))
    THEN RMul(Rat(121, 16), RMul(t, t))
    ELSE IF RLt(t, Rat(8, 11))
    THEN RAdd(RMul(Rat(121, 16), RMul(RSub(t, Rat(6, 11)), RSub(t, Rat(6, 11)))),
              Rat(3, 4))
    ELSE IF RLt(t, Rat(10, 11))
    THEN RAdd(RMul(Rat(121, 16), RMul(RSub(t, Rat(9, 11)), RSub(t, Rat(9, 11)))),
              Rat(15, 16))
    ELSE RAdd(RMul(Rat(121, 16), RMul(RSub(t, Rat(21, 22)), RSub(t, Rat(21, 22)))),
              Rat(63, 64))

\* whether the numbers x and y >= 0 differ by less than 2^-51, four units in
\* the last place of a double in 0.5..1
Close(x, y) ==
    /\ ~x.neg
    /\ \/ x = y
       \/ BigBitLen(NumSub(x, y).abs.m) + NumSub(x, y).abs.e <= -51

\* C31: each of the eleven easing curves maps t = 0 to 0 and t = 1 to 1, and
\* bounceOut follows the four-segment piecewise formula with n1 = 7.5625 and
\* d1 = 2.75 (to the rounding of double arithmetic), giving
\* bounceOut(0.5) = 0.765625
C31_EasingEndpointsAndBounce ==
    easeCall.op = "applyEasing" =>
       /\ easeCall.k = 0 => easeCall.result = Num(0, 1)
       /\ easeCall.k = 2^TBits => easeCall.result = Num(1, 1)
       /\ easeCall.easing = "bounceOut" =>
             /\ Close(easeCall.result,
                      Num(ClaimedBounceOut(Rat(easeCall.k, 2^TBits))[1],
                          ClaimedBounceOut(Rat(easeCall.k, 2^TBits))[2]))
             /\ 2 * easeCall.k = 2^TBits => easeCall.result = Num(49, 64)

C31_Witness ==
    /\ easeCall.op = "applyEasing"
    /\ easeCall.easing = "bounceOut"
    /\ 2 * easeCall.k = 2^TBits
    /\ easeCall.result = Num(49, 64)

----------------------------------------------------------------------------
(* Claims about lerpColor *)

\* whether x is a number in 0..255
InByteRange(x) == ~x.nan /\ RLe(Zero, x.v) /\ RLe(x.v, Rat(255, 1))

\* C32: in multi-color interpolation a color string whose format is not
\* recognized, malformed '#' and 'rgb' strings included, is treated as
\* opaque white, and the interpolated color always has three numeric
\* channels in 0..255.  A '#' string is cut into three pairs of characters
\* whatever it holds, and parseInt gives NaN for a pair that is empty or is
\* no hexadecimal number: this is violated.
C32_UnrecognizedIsWhite ==
    colorCall.op = "lerpColor" =>
       /\ \A i \in 1..3 : InByteRange(colorCall.result[i])
       /\ colorCall.color1 \notin WellFormedColors
             => parseColor(colorCall.color1) = White

\* what does hold: a string that begins with neither '#' nor 'rgb', and an
\* 'rgb' string without a digit, is white; and two well-formed colors give
\* three channels in 0..255
C32_WhiteWithoutPrefix ==
    colorCall.op = "lerpColor" =>
       /\ ~startsWith(colorCall.color1, <<"#">>)
             /\ (~startsWith(colorCall.color1, <<"r", "g", "b">>)
                    \/ \A i \in 1..Len(colorCall.color1) :
                          ~IsDigit(colorCall.color1[i]))
             => parseColor(colorCall.color1) = White
       /\ colorCall.color1 \in WellFormedColors
             /\ colorCall.color2 \in WellFormedColors
             => \A i \in 1..3 : InByteRange(colorCall.result[i])

====
